---------------------------- MODULE Spec2Model ----------------------------
(***************************************************************************)
(* Morphix safety gates: the scalar BioRail/Terrasafe gate                 *)
(* (microsociety/src/biorail_terrasafe.rs) and the capability reversal     *)
(* guard (crates/policyengine/src/reversalconditions.rs).                  *)
(*                                                                         *)
(* Number representation.  An f64 is modelled as a fixed-point integer in  *)
(* units of 1e-9 (One = 1.0), so that the code's tolerance 1e-9 is exactly *)
(* one unit (Eps) and the hard ceiling 0.3 is RohCeil.  Products and       *)
(* quotients are computed exactly and rounded toward zero.  The f64 value  *)
(* NaN is the distinguished value NaN, outside the range of every finite   *)
(* value the model uses; arithmetic propagates it, comparisons with it are *)
(* false, and f64::max / f64::min return the other operand, as in Rust.    *)
(***************************************************************************)
EXTENDS Integers, Sequences, FiniteSets, TLC

\* 1.0 in fixed-point units of 1e-9.
One == 1000000000
\* The tolerance 1e-9 of the invariant checks.
Eps == 1
\* The hard risk-of-harm ceiling 0.3.
RohCeil == 300000000
\* The f64 NaN.
NaN == -(2 * One)
\* Saturation value of a quotient outside the representable range (2.0).
Sat == 2 * One

IsNaN(x) == x = NaN

Abs(x) == IF x < 0 THEN -x ELSE x

Sgn(x) == IF x < 0 THEN -1 ELSE 1

\* floor(a * b / One) for 0 <= a, b, computed without leaving 32 bits:
\* a = a1 * 32000 + a0, b = b1 * 31250 + b0, and 32000 * 31250 = One.
MulNat(a, b) ==
    LET a1 == a \div 32000
        a0 == a % 32000
        b1 == b \div 31250
        b0 == b % 31250
        p1 == a1 * b0
        p2 == a0 * b1
        s  == (p1 % 31250) * 32000 + (p2 % 32000) * 31250
        t  == (s % One) + a0 * b0
    IN  a1 * b1 + (p1 \div 31250) + (p2 \div 32000) + (s \div One) + (t \div One)

RECURSIVE GCD(_, _)
GCD(m, n) == IF n = 0 THEN m ELSE GCD(n, m % n)

\* floor(a * m / c) for 0 <= a < c <= One, by doubling over the binary digits
\* of m, lowest first: <<qp, rp>> is the quotient and remainder by c of a
\* times the current power of two, <<qa, ra>> those of a times the digits
\* consumed so far.
RECURSIVE MulDivNat(_, _, _, _, _, _)
MulDivNat(qa, ra, qp, rp, m, c) ==
    IF m = 0 \/ qa < 0 \/ ra < 0 \/ qp < 0 \/ rp < 0 THEN qa
    ELSE MulDivNat(qa + (m % 2) * (qp + ((ra + rp) \div c)),
                   IF m % 2 = 1 THEN (ra + rp) % c ELSE ra,
                   2 * qp + ((2 * rp) \div c),
                   (2 * rp) % c,
                   m \div 2, c)

\* floor(a * One / b) for 0 <= a < 2 * b, b > 0: One / b is reduced to m / c
\* in lowest terms first.
DivNat(a, b) ==
    LET g == GCD(One, b)
        m == One \div g
        c == b \div g
    IN  (a \div c) * m + MulDivNat(0, 0, 0, a % c, m, c)

\* f64 addition.
FAdd(a, b) == IF IsNaN(a) \/ IsNaN(b) THEN NaN ELSE a + b

\* f64 subtraction.
FSub(a, b) == IF IsNaN(a) \/ IsNaN(b) THEN NaN ELSE a - b

\* f64 multiplication.
FMul(a, b) ==
    IF IsNaN(a) \/ IsNaN(b) THEN NaN
    ELSE Sgn(a) * Sgn(b) * MulNat(Abs(a), Abs(b))

\* f64 division by a positive divisor; a quotient of magnitude 2.0 or more
\* saturates.
FDiv(a, b) ==
    IF IsNaN(a) \/ IsNaN(b) THEN NaN
    ELSE IF Abs(a) \div 2 >= b THEN Sgn(a) * Sat
    ELSE Sgn(a) * DivNat(Abs(a), b)

\* f64::max: a NaN operand yields the other operand.
FMax(a, b) == IF IsNaN(a) THEN b ELSE IF IsNaN(b) THEN a ELSE IF a > b THEN a ELSE b

\* f64::min.
FMin(a, b) == IF IsNaN(a) THEN b ELSE IF IsNaN(b) THEN a ELSE IF a < b THEN a ELSE b

\* f64::clamp(lo, hi): NaN stays NaN.
FClamp(x, lo, hi) == IF IsNaN(x) THEN NaN ELSE IF x < lo THEN lo ELSE IF x > hi THEN hi ELSE x

\* f64 comparisons: false when an operand is NaN.
FGt(a, b) == ~IsNaN(a) /\ ~IsNaN(b) /\ a > b

FLt(a, b) == ~IsNaN(a) /\ ~IsNaN(b) /\ a < b

FLe(a, b) == ~IsNaN(a) /\ ~IsNaN(b) /\ a <= b

\* new_clamped without the is_nan test: NaN fails both comparisons and is
\* returned as it is.
new_clamped_without_nan_test(x) == IF FLt(x, 0) THEN 0 ELSE IF FGt(x, One) THEN One ELSE x

\* RailScalar::new_clamped.
new_clamped(x) == IF IsNaN(x) THEN 0 ELSE IF x < 0 THEN 0 ELSE IF x > One THEN One ELSE x

\* RailScalar::max.
rail_max(a, b) == new_clamped(FMax(a, b))

\* RailScalar::min.
rail_min(a, b) == new_clamped(FMin(a, b))

\* n/d of 1.0 (d divides One).
Frac(n, d) == n * (One \div d)

(***************************************************************************)
(* The scalar gate: BioRailTerrasafeGuard.                                 *)
(***************************************************************************)

\* Weight of each of the five risk components in the rail (0.18).
RiskWeight == 180000000
\* Weight of the lifeforce deficit (0.10).
LifeforceWeight == 100000000
\* Relief coefficient of sovereignty_trust (0.4).
ReliefWeight == 400000000
\* The factor 0.5 of the corridor midpoint and half width.
Half == 500000000

\* raw_rail with the relief added to the risk instead of subtracted.
raw_rail_relief_added(risk_sum, sovereign_relief) ==
    FClamp(FAdd(risk_sum, sovereign_relief), 0, One)

\* The clamped difference `raw` of compute_biosignature: risk less relief.
raw_rail(risk_sum, sovereign_relief) == FClamp(FSub(risk_sum, sovereign_relief), 0, One)

\* compute_biosignature with the lifeforce deficit added after the relief has
\* been subtracted and clamped, so that trust no longer offsets it.
compute_biosignature_deficit_unrelieved(site) ==
    LET id == site.identity_5d
        env == site.bio_env
        roh_norm == FClamp(FDiv(env.roh, RohCeil), 0, One)
        decay_norm == FClamp(env.decay, 0, One)
        lf_band_width == FMax(FSub(env.lifeforce_max, env.lifeforce_min), Eps)
        lf_pos == FClamp(FDiv(FSub(env.lifeforce, env.lifeforce_min), lf_band_width), 0, One)
        lf_risk == FSub(One, lf_pos)
        bio_load == FClamp(id.biostate_load, 0, One)
        fear == FClamp(id.neurostate_fear, 0, One)
        ctx == FClamp(id.context_load, 0, One)
        sovereign == FClamp(id.sovereignty_trust, 0, One)
        risk_sum ==
            FAdd(FAdd(FAdd(FAdd(FMul(RiskWeight, bio_load),
                                FMul(RiskWeight, fear)),
                           FMul(RiskWeight, ctx)),
                      FMul(RiskWeight, roh_norm)),
                 FMul(RiskWeight, decay_norm))
        sovereign_relief == FMul(ReliefWeight, sovereign)
        raw == FAdd(raw_rail(risk_sum, sovereign_relief), FMul(LifeforceWeight, lf_risk))
    IN  new_clamped(raw)

\* compute_biosignature reading the lifeforce of the identity vector in
\* place of the envelope's.
compute_biosignature_identity_lifeforce(site) ==
    LET id == site.identity_5d
        env == site.bio_env
        roh_norm == FClamp(FDiv(env.roh, RohCeil), 0, One)
        decay_norm == FClamp(env.decay, 0, One)
        lf_band_width == FMax(FSub(env.lifeforce_max, env.lifeforce_min), Eps)
        lf_pos == FClamp(FDiv(FSub(id.lifeforce, env.lifeforce_min), lf_band_width), 0, One)
        lf_risk == FSub(One, lf_pos)
        bio_load == FClamp(id.biostate_load, 0, One)
        fear == FClamp(id.neurostate_fear, 0, One)
        ctx == FClamp(id.context_load, 0, One)
        sovereign == FClamp(id.sovereignty_trust, 0, One)
        risk_sum ==
            FAdd(FAdd(FAdd(FAdd(FAdd(FMul(RiskWeight, bio_load),
                                     FMul(RiskWeight, fear)),
                                FMul(RiskWeight, ctx)),
                           FMul(RiskWeight, roh_norm)),
                      FMul(RiskWeight, decay_norm)),
                 FMul(LifeforceWeight, lf_risk))
        sovereign_relief == FMul(ReliefWeight, sovereign)
        raw == raw_rail(risk_sum, sovereign_relief)
    IN  new_clamped(raw)

\* BioRailTerrasafeGuard::compute_biosignature.
compute_biosignature(site) ==
    LET id == site.identity_5d
        env == site.bio_env
        roh_norm == FClamp(FDiv(env.roh, RohCeil), 0, One)
        decay_norm == FClamp(env.decay, 0, One)
        lf_band_width == FMax(FSub(env.lifeforce_max, env.lifeforce_min), Eps)
        lf_pos == FClamp(FDiv(FSub(env.lifeforce, env.lifeforce_min), lf_band_width), 0, One)
        lf_risk == FSub(One, lf_pos)
        bio_load == FClamp(id.biostate_load, 0, One)
        fear == FClamp(id.neurostate_fear, 0, One)
        ctx == FClamp(id.context_load, 0, One)
        sovereign == FClamp(id.sovereignty_trust, 0, One)
        risk_sum ==
            FAdd(FAdd(FAdd(FAdd(FAdd(FMul(RiskWeight, bio_load),
                                     FMul(RiskWeight, fear)),
                                FMul(RiskWeight, ctx)),
                           FMul(RiskWeight, roh_norm)),
                      FMul(RiskWeight, decay_norm)),
                 FMul(LifeforceWeight, lf_risk))
        sovereign_relief == FMul(ReliefWeight, sovereign)
        raw == raw_rail(risk_sum, sovereign_relief)
    IN  new_clamped(raw)

\* stressed with >= in place of >: a metric at its maximum counts as stress.
stressed_at_maximum(site) ==
    LET jm == site.justice_metrics
        cfg == site.justice_cfg
    IN  \/ FLe(cfg.hpcc_max, jm.hpcc)
        \/ FLe(cfg.erg_max, jm.erg)
        \/ FLe(cfg.tecr_max, jm.tecr)

\* stressed reading the informational flag unfair_drain as a stress signal.
stressed_or_unfair_drain(site) ==
    LET jm == site.justice_metrics
        cfg == site.justice_cfg
    IN  \/ site.diag.unfair_drain
        \/ FGt(jm.hpcc, cfg.hpcc_max)
        \/ FGt(jm.erg, cfg.erg_max)
        \/ FGt(jm.tecr, cfg.tecr_max)

\* The `stressed` test of apply_justice_tuning.
stressed(site) ==
    LET jm == site.justice_metrics
        cfg == site.justice_cfg
    IN  \/ FGt(jm.hpcc, cfg.hpcc_max)
        \/ FGt(jm.erg, cfg.erg_max)
        \/ FGt(jm.tecr, cfg.tecr_max)

\* BioRailTerrasafeGuard::apply_justice_tuning; the pair (BioRailConfig,
\* BioLoadView) is the record [cfg, bioload].
apply_justice_tuning(site, rail_cfg, bioload) ==
    IF ~stressed(site) THEN [cfg |-> rail_cfg, bioload |-> bioload]
    ELSE
    LET factor == FClamp(site.justice_cfg.tightening_factor, 0, One)
        mid == FMul(Half, FAdd(rail_cfg.corridor_min, rail_cfg.corridor_max))
        half_width ==
            FMul(FMul(Half, FSub(rail_cfg.corridor_max, rail_cfg.corridor_min)), factor)
        tuned_min == new_clamped(FSub(mid, half_width))
        tuned_max == new_clamped(FAdd(mid, half_width))
        tuned_bioload ==
            [body |-> bioload.body,
             room |-> bioload.room,
             grid |-> bioload.grid,
             body_max |-> new_clamped(FMul(bioload.body_max, factor)),
             room_max |-> new_clamped(FMul(bioload.room_max, factor)),
             grid_max |-> new_clamped(FMul(bioload.grid_max, factor))]
        tuned_cfg == [corridor_min |-> tuned_min, corridor_max |-> tuned_max]
    IN  [cfg |-> tuned_cfg, bioload |-> tuned_bioload]

\* check_envelopes without the DECAY test.
check_envelopes_without_decay(pred_env) ==
    IF FGt(pred_env.roh, RohCeil + Eps) THEN FALSE
    ELSE IF FLt(pred_env.lifeforce, FSub(pred_env.lifeforce_min, Eps)) THEN FALSE
    ELSE IF FGt(pred_env.lifeforce, FAdd(pred_env.lifeforce_max, Eps)) THEN FALSE
    ELSE TRUE

\* BioRailTerrasafeGuard::check_envelopes.
check_envelopes(pred_env) ==
    IF FGt(pred_env.roh, RohCeil + Eps) THEN FALSE
    ELSE IF FGt(pred_env.decay, One + Eps) THEN FALSE
    ELSE IF FLt(pred_env.lifeforce, FSub(pred_env.lifeforce_min, Eps)) THEN FALSE
    ELSE IF FGt(pred_env.lifeforce, FAdd(pred_env.lifeforce_max, Eps)) THEN FALSE
    ELSE TRUE

\* check_bioload without the grid test.
check_bioload_without_grid(pred) ==
    /\ FLe(pred.body, pred.body_max + Eps)
    /\ FLe(pred.room, pred.room_max + Eps)

\* BioRailTerrasafeGuard::check_bioload.
check_bioload(pred) ==
    /\ FLe(pred.body, pred.body_max + Eps)
    /\ FLe(pred.room, pred.room_max + Eps)
    /\ FLe(pred.grid, pred.grid_max + Eps)

\* check_power_church with a tolerance of 1e-6 in place of 1e-9.
check_power_church_wide_tolerance(pred_pc) ==
    LET k == FMax(pred_pc.k_ratio, 0)
        allowed_power == FMul(k, FMax(pred_pc.church, 0))
    IN  FLe(pred_pc.power, FAdd(allowed_power, 1000 * Eps))

\* BioRailTerrasafeGuard::check_power_church.
check_power_church(pred_pc) ==
    LET k == FMax(pred_pc.k_ratio, 0)
        allowed_power == FMul(k, FMax(pred_pc.church, 0))
    IN  FLe(pred_pc.power, FAdd(allowed_power, Eps))

\* BioRailTerrasafeGuard::predict_post_state; the 4-tuple is the record
\* [env, bl, pc, id].
predict_post_state(site, change, tuned_bioload_max) ==
    LET e == site.bio_env
        i == site.identity_5d
        b == site.bioload_view
        p == site.power_church
        env == [e EXCEPT !.roh = FMax(FAdd(e.roh, change.delta_roh), 0),
                         !.decay = FMax(FAdd(e.decay, change.delta_decay), 0),
                         !.lifeforce = FAdd(e.lifeforce, change.delta_lifeforce_env)]
        id == [i EXCEPT
                 !.biostate_load = FClamp(FAdd(i.biostate_load, change.delta_biostate_load), 0, One),
                 !.neurostate_fear = FClamp(FAdd(i.neurostate_fear, change.delta_neurostate_fear), 0, One),
                 !.lifeforce = FAdd(i.lifeforce, change.delta_lifeforce),
                 !.context_load = FClamp(FAdd(i.context_load, change.delta_context_load), 0, One),
                 !.sovereignty_trust = FClamp(FAdd(i.sovereignty_trust, change.delta_sovereignty_trust), 0, One)]
        bl == [body |-> new_clamped(FAdd(b.body, change.delta_bioload_body)),
               room |-> new_clamped(FAdd(b.room, change.delta_bioload_room)),
               grid |-> new_clamped(FAdd(b.grid, change.delta_bioload_grid)),
               body_max |-> tuned_bioload_max.body_max,
               room_max |-> tuned_bioload_max.room_max,
               grid_max |-> tuned_bioload_max.grid_max]
        pc == [p EXCEPT !.power = FMax(FAdd(p.power, change.delta_power), 0)]
    IN  [env |-> env, bl |-> bl, pc |-> pc, id |-> id]

\* corridor_verdict with >= in place of >: a flat rail counts as worsening.
corridor_verdict_flat_repairs(pred_b, current_b, tuned_cfg) ==
    IF pred_b < tuned_cfg.corridor_min \/ pred_b > tuned_cfg.corridor_max
    THEN IF pred_b >= current_b THEN "ForceRepair" ELSE "Downscale"
    ELSE "Allow"

\* The corridor test and the Downscale / ForceRepair classification at the
\* end of gate.
corridor_verdict(pred_b, current_b, tuned_cfg) ==
    IF pred_b < tuned_cfg.corridor_min \/ pred_b > tuned_cfg.corridor_max
    THEN IF pred_b > current_b THEN "ForceRepair" ELSE "Downscale"
    ELSE "Allow"

\* The predicted SiteView that gate builds for the second rail computation.
pred_site_view(site, pred) ==
    [site EXCEPT !.bio_env = pred.env,
                 !.identity_5d = pred.id,
                 !.bioload_view = pred.bl,
                 !.power_church = pred.pc]

\* gate with assert! in place of debug_assert!: the unset flag aborts the call
\* in every build.
gate_asserting_in_every_build(site, base_cfg, proposed, debug_assertions) ==
    LET tuned == apply_justice_tuning(site, base_cfg, site.bioload_view)
        current_b == compute_biosignature(site)
        pred == predict_post_state(site, proposed, tuned.bioload)
        pred_b == compute_biosignature(pred_site_view(site, pred))
        locals == [tuned_cfg |-> tuned.cfg, tuned_bioload_max |-> tuned.bioload,
                   current_b |-> current_b, pred |-> pred, pred_b |-> <<>>]
    IN  IF ~site.diag.role_diagnostic_only
        THEN [verdict |-> "Panic"]
        ELSE IF ~check_envelopes(pred.env)
        THEN [verdict |-> "ForceRepair", locals |-> locals]
        ELSE IF ~check_bioload(pred.bl)
        THEN [verdict |-> "ForceRepair", locals |-> locals]
        ELSE IF ~check_power_church(pred.pc)
        THEN [verdict |-> "Block", locals |-> locals]
        ELSE [verdict |-> corridor_verdict(pred_b, current_b, tuned.cfg),
              locals |-> [locals EXCEPT !.pred_b = <<pred_b>>]]

\* BioRailTerrasafeGuard::gate.  The result records the verdict together
\* with the locals computed before the return: pred_b is <<>> when gate
\* returned before the second rail computation.  debug_assertions is the
\* build: with it, debug_assert! panics on an unset role_diagnostic_only and
\* nothing is computed; without it the assertion is compiled out.
gate(site, base_cfg, proposed, debug_assertions) ==
    LET tuned == apply_justice_tuning(site, base_cfg, site.bioload_view)
        current_b == compute_biosignature(site)
        pred == predict_post_state(site, proposed, tuned.bioload)
        pred_b == compute_biosignature(pred_site_view(site, pred))
        locals == [tuned_cfg |-> tuned.cfg, tuned_bioload_max |-> tuned.bioload,
                   current_b |-> current_b, pred |-> pred, pred_b |-> <<>>]
    IN  IF debug_assertions /\ ~site.diag.role_diagnostic_only
        THEN [verdict |-> "Panic"]
        ELSE IF ~check_envelopes(pred.env)
        THEN [verdict |-> "ForceRepair", locals |-> locals]
        ELSE IF ~check_bioload(pred.bl)
        THEN [verdict |-> "ForceRepair", locals |-> locals]
        ELSE IF ~check_power_church(pred.pc)
        THEN [verdict |-> "Block", locals |-> locals]
        ELSE [verdict |-> corridor_verdict(pred_b, current_b, tuned.cfg),
              locals |-> [locals EXCEPT !.pred_b = <<pred_b>>]]


(***************************************************************************)
(* Inputs of the scalar gate.  Each group of fields is drawn from a small  *)
(* set of cases around the boundaries the gate tests; a snapshot and a     *)
(* change are assembled from one case of every group.                      *)
(***************************************************************************)

\* Offsets of 0 .. MaxEps tolerance units are tried around every ceiling.
MaxEps == 2

EpsSteps == {i * Eps : i \in 0..MaxEps}

\* Envelope and its deltas: one field group off its base value at a time.
EnvBase ==
    [roh |-> Frac(1, 10), decay |-> Frac(1, 2), lifeforce |-> Frac(1, 2),
     lifeforce_min |-> Frac(2, 10), lifeforce_max |-> Frac(8, 10),
     delta_roh |-> 0, delta_decay |-> 0, delta_lifeforce_env |-> 0]

EnvCases ==
    {EnvBase}
    \cup {[EnvBase EXCEPT !.delta_roh = -Frac(2, 10)]}
    \cup {[EnvBase EXCEPT !.roh = RohCeil, !.delta_roh = d] : d \in EpsSteps}
    \cup {[EnvBase EXCEPT !.decay = One, !.delta_decay = d] : d \in EpsSteps}
    \cup {[EnvBase EXCEPT !.lifeforce = Frac(2, 10), !.delta_lifeforce_env = -d] : d \in EpsSteps}
    \cup {[EnvBase EXCEPT !.lifeforce = Frac(8, 10), !.delta_lifeforce_env = d] : d \in EpsSteps}
    \cup {[EnvBase EXCEPT !.lifeforce = NaN]}

\* Territorial loads, their baseline ceilings and their deltas.
TerrBase ==
    [body |-> Frac(3, 10), room |-> Frac(3, 10), grid |-> Frac(3, 10),
     body_max |-> Frac(1, 2), room_max |-> Frac(1, 2), grid_max |-> Frac(1, 2),
     delta_bioload_body |-> 0, delta_bioload_room |-> 0, delta_bioload_grid |-> 0]

TerrCases ==
    {TerrBase}
    \cup {[TerrBase EXCEPT !.body = 0, !.room = 0, !.grid = 0]}
    \cup {[TerrBase EXCEPT !.body = Frac(45, 100)]}
    \cup {[TerrBase EXCEPT !.delta_bioload_body = Frac(2, 10) + d] : d \in EpsSteps}
    \cup {[TerrBase EXCEPT !.delta_bioload_room = Frac(2, 10) + MaxEps * Eps]}
    \cup {[TerrBase EXCEPT !.delta_bioload_grid = Frac(2, 10) + MaxEps * Eps]}
    \cup {[TerrBase EXCEPT !.grid = Frac(9, 10), !.grid_max = One,
                           !.delta_bioload_grid = Frac(1, 2)]}

\* Justice metrics and their configuration.
StressBase ==
    [hpcc |-> Frac(4, 10), erg |-> Frac(4, 10), tecr |-> Frac(4, 10),
     hpcc_max |-> Frac(1, 2), erg_max |-> Frac(1, 2), tecr_max |-> Frac(1, 2),
     tightening_factor |-> Frac(8, 10)]

StressCases ==
    {StressBase}
    \cup {[StressBase EXCEPT !.hpcc = Frac(1, 2), !.erg = Frac(1, 2), !.tecr = Frac(1, 2),
                             !.tightening_factor = 0]}
    \cup {[StressBase EXCEPT !.hpcc = Frac(1, 2) + Eps, !.tightening_factor = f] :
             f \in {Frac(8, 10), 0, Frac(3, 2)}}
    \cup {[StressBase EXCEPT !.erg = Frac(6, 10)]}
    \cup {[StressBase EXCEPT !.tecr = Frac(6, 10)]}

\* POWER / CHURCH pair and the POWER delta.
RatioBase ==
    [power |-> Frac(2, 10), church |-> Frac(1, 2), k_ratio |-> One, delta_power |-> 0]

RatioCases ==
    {RatioBase}
    \cup {[RatioBase EXCEPT !.power = Frac(1, 2), !.delta_power = d] : d \in EpsSteps}
    \cup {[RatioBase EXCEPT !.power = 0, !.church = -Frac(1, 2), !.delta_power = d] :
             d \in {0, MaxEps * Eps}}

\* 5D identity and its deltas.
IdBase ==
    [biostate_load |-> Frac(6, 10), neurostate_fear |-> Frac(6, 10), lifeforce |-> Frac(1, 2),
     context_load |-> Frac(6, 10), sovereignty_trust |-> 0,
     delta_biostate_load |-> 0, delta_neurostate_fear |-> 0, delta_lifeforce |-> 0,
     delta_context_load |-> 0, delta_sovereignty_trust |-> 0]

IdCases ==
    {IdBase}
    \cup {[IdBase EXCEPT !.delta_biostate_load = Frac(1, 2)]}
    \cup {[IdBase EXCEPT !.delta_sovereignty_trust = Frac(1, 2)]}
    \cup {[IdBase EXCEPT !.biostate_load = Frac(1, 10), !.neurostate_fear = Frac(1, 10),
                         !.context_load = Frac(1, 10)]}
    \cup {[IdBase EXCEPT !.biostate_load = Frac(1, 10), !.neurostate_fear = Frac(1, 10),
                         !.context_load = Frac(1, 10), !.delta_neurostate_fear = Frac(1, 10)]}
    \cup {[IdBase EXCEPT !.biostate_load = One, !.neurostate_fear = One,
                         !.context_load = One, !.delta_context_load = -Frac(1, 10)]}

\* Baseline corridors (RailScalar pairs), one of them inverted.
CorridorCases ==
    {[corridor_min |-> new_clamped(lo), corridor_max |-> new_clamped(hi)] :
        <<lo, hi>> \in {<<0, One>>, <<Frac(3, 10), Frac(55, 100)>>,
                        <<0, Frac(3, 10)>>, <<Frac(8, 10), Frac(2, 10)>>}}

\* The SiteView assembled from one case of each group.
MkSite(e, t, j, r, i) ==
    [bio_env |-> [roh |-> e.roh, decay |-> e.decay, lifeforce |-> e.lifeforce,
                  lifeforce_min |-> e.lifeforce_min, lifeforce_max |-> e.lifeforce_max],
     identity_5d |-> [biostate_load |-> i.biostate_load, neurostate_fear |-> i.neurostate_fear,
                      lifeforce |-> i.lifeforce, context_load |-> i.context_load,
                      sovereignty_trust |-> i.sovereignty_trust],
     bioload_view |-> [body |-> new_clamped(t.body), room |-> new_clamped(t.room),
                       grid |-> new_clamped(t.grid), body_max |-> new_clamped(t.body_max),
                       room_max |-> new_clamped(t.room_max), grid_max |-> new_clamped(t.grid_max)],
     power_church |-> [power |-> r.power, church |-> r.church, k_ratio |-> r.k_ratio],
     justice_metrics |-> [hpcc |-> j.hpcc, erg |-> j.erg, tecr |-> j.tecr],
     justice_cfg |-> [hpcc_max |-> j.hpcc_max, erg_max |-> j.erg_max, tecr_max |-> j.tecr_max,
                      tightening_factor |-> j.tightening_factor],
     diag |-> [beast_tag |-> FALSE, plague_tag |-> FALSE, unfair_drain |-> FALSE,
               role_diagnostic_only |-> TRUE]]

\* The ProposedChange assembled from one case of each group.
MkChange(e, t, r, i) ==
    [delta_biostate_load |-> i.delta_biostate_load,
     delta_neurostate_fear |-> i.delta_neurostate_fear,
     delta_lifeforce |-> i.delta_lifeforce,
     delta_context_load |-> i.delta_context_load,
     delta_sovereignty_trust |-> i.delta_sovereignty_trust,
     delta_roh |-> e.delta_roh,
     delta_decay |-> e.delta_decay,
     delta_lifeforce_env |-> e.delta_lifeforce_env,
     delta_bioload_body |-> t.delta_bioload_body,
     delta_bioload_room |-> t.delta_bioload_room,
     delta_bioload_grid |-> t.delta_bioload_grid,
     delta_power |-> r.delta_power]

(***************************************************************************)
(* State.  pc is the caller's position, site / base_cfg / proposed /       *)
(* debug_assertions the arguments and build of a scalar-gate call, ctx the *)
(* ReversalContext of a reversal-guard call, ledger a Ledger, event the    *)
(* DeedEvent its caller has in hand, sent the life_harm_flag of every      *)
(* event the caller chained to the tip and appended, and out what the last *)
(* call returned.  args holds the arguments of a RailScalar call, tree a   *)
(* TreeOfLife, tasks the concurrent callers of Ledger::append, token an    *)
(* FpicToken, and backends the governance and simulation backends of a     *)
(* policy validation.  A specification that does not use a variable keeps  *)
(* it at its idle value.                                                   *)
(***************************************************************************)
VARIABLES pc, site, base_cfg, proposed, debug_assertions, ctx, ledger, event, sent, out,
          args, tree, tasks, token, backends

vars == <<pc, site, base_cfg, proposed, debug_assertions, ctx, ledger, event, sent, out,
          args, tree, tasks, token, backends>>

\* Idle values of the arguments a specification does not use.
NoCtx == [diag_event |-> FALSE]

NoChange == [delta_power |-> 0]

NoCorridor == [corridor_min |-> 0, corridor_max |-> One]

\* No Ledger has been constructed.
NoLedger == [events |-> <<>>]

\* No DeedEvent is in hand.
NoEvent == [event_id |-> 0]

\* Idle values of the RailScalar arguments, the TreeOfLife, the append
\* tasks, the FpicToken and the backends.
Idle ==
    /\ args = <<>>
    /\ tree = [traits |-> <<>>]
    /\ tasks = <<>>
    /\ token = [status |-> "None"]
    /\ backends = [calls |-> <<>>]

\* No call has returned yet.
NoResult == [verdict |-> "None"]

\* A caller holds a snapshot, a baseline corridor and a proposed change.
InitGate ==
    /\ pc = "call"
    /\ \E e \in EnvCases, t \in TerrCases, j \in StressCases, r \in RatioCases, i \in IdCases :
          /\ site = MkSite(e, t, j, r, i)
          /\ proposed = MkChange(e, t, r, i)
    /\ base_cfg \in CorridorCases
    /\ debug_assertions = TRUE
    /\ ctx = NoCtx
    /\ ledger = NoLedger
    /\ event = NoEvent
    /\ sent = <<>>
    /\ Idle
    /\ out = NoResult

\* One call of BioRailTerrasafeGuard::gate.
Gate ==
    /\ pc = "call"
    /\ out' = gate(site, base_cfg, proposed, debug_assertions)
    /\ pc' = "returned"
    /\ UNCHANGED <<site, base_cfg, proposed, debug_assertions, ctx, ledger, event, sent, args, tree, tasks, token, backends>>

NextGate == Gate

SpecGate == InitGate /\ [][NextGate]_vars

(***************************************************************************)
(* Properties of the scalar gate.                                          *)
(***************************************************************************)

Returned == pc = "returned" /\ out.verdict # "Panic"

\* The predicted envelope is within its hard ceilings and band, up to Eps.
EnvelopeWithin(env) ==
    /\ FLe(env.roh, RohCeil + Eps)
    /\ FLe(env.decay, One + Eps)
    /\ FLe(FSub(env.lifeforce_min, Eps), env.lifeforce)
    /\ FLe(env.lifeforce, FAdd(env.lifeforce_max, Eps))

\* A predicted envelope value lies beyond a ceiling or a band bound by more
\* than Eps.
EnvelopeBeyond(env) ==
    \/ FGt(env.roh, RohCeil + Eps)
    \/ FGt(env.decay, One + Eps)
    \/ FLt(env.lifeforce, FSub(env.lifeforce_min, Eps))
    \/ FGt(env.lifeforce, FAdd(env.lifeforce_max, Eps))

\* Every predicted load is at most its ceiling, up to Eps.
LoadsWithin(bl, ceilings) ==
    /\ bl.body <= ceilings.body_max + Eps
    /\ bl.room <= ceilings.room_max + Eps
    /\ bl.grid <= ceilings.grid_max + Eps

\* k * church for the non-negative pair the data model describes: a negative
\* k or church counts as 0.
AllowedPower(p) == FMul(FMax(p.k_ratio, 0), FMax(p.church, 0))

InCorridor(b, cfg) == cfg.corridor_min <= b /\ b <= cfg.corridor_max

\* C1: whenever the gate returns Allow, the predicted state satisfies every
\* hard invariant at once (envelope ceilings and band, the three tuned
\* territorial ceilings, POWER <= k * CHURCH, all up to the tolerance) and
\* the predicted rail value lies inside the tuned corridor.
C1_AllowImpliesAllInvariants ==
    (pc = "returned" /\ out.verdict = "Allow") =>
        LET l == out.locals IN
        /\ EnvelopeWithin(l.pred.env)
        /\ LoadsWithin(l.pred.bl, l.tuned_bioload_max)
        /\ FLe(l.pred.pc.power, FAdd(AllowedPower(l.pred.pc), Eps))
        /\ InCorridor(l.pred_b[1], l.tuned_cfg)

\* The predicted slices and the tuned corridor and ceilings of the call in
\* progress, computed from its inputs.
Tuned == apply_justice_tuning(site, base_cfg, site.bioload_view)

Predicted == predict_post_state(site, proposed, site.bioload_view)

PredictedB == compute_biosignature(pred_site_view(site, Predicted))

CurrentB == compute_biosignature(site)

C3_AnyExcessForcesRepair ==
    (Returned /\ \/ Predicted.bl.body > Tuned.bioload.body_max
                 \/ Predicted.bl.room > Tuned.bioload.room_max
                 \/ Predicted.bl.grid > Tuned.bioload.grid_max)
        => out.verdict = "ForceRepair"

\* C3, amended: a predicted load (clamped to [0,1]) above its tuned ceiling
\* by more than the tolerance always yields ForceRepair.
C3_ExcessBeyondToleranceForcesRepair ==
    (Returned /\ ~LoadsWithin(Predicted.bl, Tuned.bioload))
        => out.verdict = "ForceRepair"

C3_Witness ==
    /\ Returned
    /\ stressed(site)
    /\ ~EnvelopeBeyond(Predicted.env)
    /\ ~LoadsWithin(Predicted.bl, Tuned.bioload)
    /\ LoadsWithin(Predicted.bl, site.bioload_view)
    /\ out.verdict = "ForceRepair"

\* The predicted POWER exceeds k * CHURCH by more than the tolerance.
RatioBeyond(p) == FGt(p.power, FAdd(AllowedPower(p), Eps))

\* C4 as stated: a predicted POWER above k * CHURCH (beyond the tolerance)
\* always yields Block.
C4_RatioViolationBlocks ==
    (Returned /\ RatioBeyond(Predicted.pc)) => out.verdict = "Block"

\* C4, amended: a predicted POWER above k * CHURCH (beyond the tolerance, k
\* and CHURCH floored at 0) yields Block when no envelope value and no
\* territorial load is beyond its bound, and ForceRepair otherwise.
C4_RatioViolationBlocksAfterHardChecks ==
    (Returned /\ RatioBeyond(Predicted.pc)) =>
        out.verdict = IF ~EnvelopeBeyond(Predicted.env) /\ LoadsWithin(Predicted.bl, Tuned.bioload)
                      THEN "Block" ELSE "ForceRepair"

C4_Witness ==
    /\ Returned
    /\ RatioBeyond(Predicted.pc)
    /\ Predicted.pc.power = AllowedPower(Predicted.pc) + 2 * Eps
    /\ out.verdict = "Block"

\* C5: when the three checks pass and the predicted rail value is outside
\* the tuned corridor, the verdict is ForceRepair if the predicted value is
\* above the current one and Downscale otherwise.
C5_CorridorTieBreak ==
    (/\ Returned
     /\ check_envelopes(Predicted.env)
     /\ LoadsWithin(Predicted.bl, Tuned.bioload)
     /\ ~RatioBeyond(Predicted.pc)
     /\ ~InCorridor(PredictedB, Tuned.cfg))
        => out.verdict = IF PredictedB > CurrentB THEN "ForceRepair" ELSE "Downscale"

C5_Witness ==
    /\ Returned
    /\ out.verdict = "Downscale"
    /\ PredictedB = CurrentB
    /\ PredictedB > Tuned.cfg.corridor_max

C5_WitnessWorsening ==
    /\ Returned
    /\ out.verdict = "ForceRepair"
    /\ check_envelopes(Predicted.env)
    /\ LoadsWithin(Predicted.bl, Tuned.bioload)
    /\ PredictedB > CurrentB
    /\ PredictedB > Tuned.cfg.corridor_max

\* No justice metric exceeds its maximum.
NoMetricExceeds(s) ==
    /\ ~FGt(s.justice_metrics.hpcc, s.justice_cfg.hpcc_max)
    /\ ~FGt(s.justice_metrics.erg, s.justice_cfg.erg_max)
    /\ ~FGt(s.justice_metrics.tecr, s.justice_cfg.tecr_max)

\* C7: when no stress metric exceeds its maximum (equality included), the
\* tuned corridor and ceilings are exactly the baseline, whatever the
\* tightening factor.
C7_NoStressKeepsBaseline ==
    (Returned /\ NoMetricExceeds(site)) =>
        /\ out.locals.tuned_cfg = base_cfg
        /\ out.locals.tuned_bioload_max = site.bioload_view

C7_Witness ==
    /\ Returned
    /\ site.justice_metrics.hpcc = site.justice_cfg.hpcc_max
    /\ site.justice_cfg.tightening_factor = 0
    /\ out.locals.tuned_cfg = base_cfg
    /\ base_cfg.corridor_min < base_cfg.corridor_max

\* C8: the tuned corridor and ceilings never widen the baseline: the tuned
\* minimum is at least the baseline minimum, the tuned maximum and ceilings
\* at most the baseline ones, and a rail value the tuned corridor admits
\* (its own bounds, when it is not empty) is admitted by the baseline.
C8_TuningNeverWidens ==
    Returned =>
        LET t == out.locals.tuned_cfg
            m == out.locals.tuned_bioload_max
        IN  /\ t.corridor_min >= base_cfg.corridor_min
            /\ t.corridor_max <= base_cfg.corridor_max
            /\ m.body_max <= site.bioload_view.body_max
            /\ m.room_max <= site.bioload_view.room_max
            /\ m.grid_max <= site.bioload_view.grid_max
            /\ \A b \in {t.corridor_min, t.corridor_max} :
                  InCorridor(b, t) => InCorridor(b, base_cfg)

(***************************************************************************)
(* The rail as a function of one input at a time: a caller computes the    *)
(* rail of a snapshot, then one measured input rises and the rail is       *)
(* computed again.                                                         *)
(***************************************************************************)

\* Rail inputs are tried at levels (i - 1) * step for i in 0 .. MaxLevel, so
\* that values below 0 and above the normalisation ceiling occur.
MaxLevel == 4

Levels == {(i - 1) * Frac(1, 2) : i \in 0..MaxLevel}

RohLevels == {(i - 1) * Frac(15, 100) : i \in 0..MaxLevel}

InitRail ==
    /\ pc = "rail"
    /\ \E bl \in Levels, fear \in Levels, cl \in Levels, tr \in Levels,
          roh \in RohLevels, decay \in Levels :
          site = MkSite([EnvBase EXCEPT !.roh = roh, !.decay = decay], TerrBase, StressBase,
                        RatioBase,
                        [IdBase EXCEPT !.biostate_load = bl, !.neurostate_fear = fear,
                                       !.context_load = cl, !.sovereignty_trust = tr])
    /\ base_cfg = NoCorridor
    /\ proposed = NoChange
    /\ debug_assertions = TRUE
    /\ ctx = NoCtx
    /\ ledger = NoLedger
    /\ event = NoEvent
    /\ sent = <<>>
    /\ Idle
    /\ out = NoResult

\* The caller computes the rail of its snapshot.
ComputeRail ==
    /\ pc = "rail"
    /\ out' = [verdict |-> "None", op |-> "compute", b |-> compute_biosignature(site)]
    /\ pc' = "computed"
    /\ UNCHANGED <<site, base_cfg, proposed, debug_assertions, ctx, ledger, event, sent, args, tree, tasks, token, backends>>

\* One input of the snapshot has risen to give s2 (the step op); the rail is
\* computed again and remembered together with the rail before the step.
Recompute(op, s2) ==
    /\ site' = s2
    /\ out' = [verdict |-> "None", op |-> op, prev_b |-> out.b, b |-> compute_biosignature(s2)]
    /\ pc' = "recomputed"
    /\ UNCHANGED <<base_cfg, proposed, debug_assertions, ctx, ledger, event, sent, args, tree, tasks, token, backends>>

RaiseBiostateLoad ==
    /\ pc = "computed"
    /\ \E v \in Levels :
          /\ v > site.identity_5d.biostate_load
          /\ Recompute("raise_biostate_load", [site EXCEPT !.identity_5d.biostate_load = v])

RaiseNeurostateFear ==
    /\ pc = "computed"
    /\ \E v \in Levels :
          /\ v > site.identity_5d.neurostate_fear
          /\ Recompute("raise_neurostate_fear", [site EXCEPT !.identity_5d.neurostate_fear = v])

RaiseContextLoad ==
    /\ pc = "computed"
    /\ \E v \in Levels :
          /\ v > site.identity_5d.context_load
          /\ Recompute("raise_context_load", [site EXCEPT !.identity_5d.context_load = v])

RaiseRoh ==
    /\ pc = "computed"
    /\ \E v \in RohLevels :
          /\ v > site.bio_env.roh
          /\ Recompute("raise_roh", [site EXCEPT !.bio_env.roh = v])

RaiseDecay ==
    /\ pc = "computed"
    /\ \E v \in Levels :
          /\ v > site.bio_env.decay
          /\ Recompute("raise_decay", [site EXCEPT !.bio_env.decay = v])

RaiseSovereigntyTrust ==
    /\ pc = "computed"
    /\ \E v \in Levels :
          /\ v > site.identity_5d.sovereignty_trust
          /\ Recompute("raise_sovereignty_trust", [site EXCEPT !.identity_5d.sovereignty_trust = v])

NextRail ==
    \/ ComputeRail
    \/ RaiseBiostateLoad
    \/ RaiseNeurostateFear
    \/ RaiseContextLoad
    \/ RaiseRoh
    \/ RaiseDecay
    \/ RaiseSovereigntyTrust

SpecRail == InitRail /\ [][NextRail]_vars

RiskRaises ==
    {"raise_biostate_load", "raise_neurostate_fear", "raise_context_load", "raise_roh",
     "raise_decay"}

\* C6: the rail is monotone: raising exactly one of biostate load, fear,
\* context load, risk-of-harm or decay never lowers it, and raising trust
\* alone never raises it.
C6_RailMonotone ==
    pc = "recomputed" =>
        /\ out.op \in RiskRaises => out.b >= out.prev_b
        /\ out.op = "raise_sovereignty_trust" => out.b <= out.prev_b

C6_Witness ==
    /\ pc = "recomputed"
    /\ out.op = "raise_sovereignty_trust"
    /\ out.b < out.prev_b
    /\ out.b > 0

C6_WitnessRisk ==
    /\ pc = "recomputed"
    /\ out.op = "raise_roh"
    /\ out.b > out.prev_b
    /\ site.identity_5d.sovereignty_trust > 0
(***************************************************************************)
(* The capability reversal guard: policyengine/src/reversalconditions.rs.  *)
(***************************************************************************)

\* CapabilityState, the variants named by is_neuromorph_downgrade.
CapabilityState == {"CapModelOnly", "CapLabBench", "CapControlledHuman", "CapGeneralUse"}

\* ReversalDecision::Allowed and ReversalDecision::Denied(reason).
Allowed == [decision |-> "Allowed"]

Denied(reason) == [decision |-> "Denied", reason |-> reason]

\* is_neuromorph_downgrade without the pair (CapGeneralUse, CapControlledHuman).
is_neuromorph_downgrade_missing_pair(from, to) ==
    <<from, to>> \in {<<"CapControlledHuman", "CapLabBench">>,
                      <<"CapControlledHuman", "CapModelOnly">>,
                      <<"CapGeneralUse", "CapLabBench">>,
                      <<"CapGeneralUse", "CapModelOnly">>}

\* is_neuromorph_downgrade taking every change of state for a downgrade.
is_neuromorph_downgrade_any_change(from, to) == from # to

\* is_neuromorph_downgrade.
is_neuromorph_downgrade(from, to) ==
    <<from, to>> \in {<<"CapControlledHuman", "CapLabBench">>,
                      <<"CapControlledHuman", "CapModelOnly">>,
                      <<"CapGeneralUse", "CapControlledHuman">>,
                      <<"CapGeneralUse", "CapLabBench">>,
                      <<"CapGeneralUse", "CapModelOnly">>}

\* evaluate_reversal with the observer test placed after the RoH tests.
evaluate_reversal_observer_late(c) ==
    IF c.cap_before = "CapControlledHuman" /\ FGt(c.roh_after, c.roh_before)
    THEN Denied("DeniedRoHViolation")
    ELSE IF c.cap_before = "CapControlledHuman" /\ FGt(c.roh_after, RohCeil)
    THEN Denied("DeniedRoHViolation")
    ELSE IF c.diag_event
    THEN Denied("DeniedIllegalDowngradeByNonRegulator")
    ELSE IF ~is_neuromorph_downgrade(c.cap_before, c.cap_after)
    THEN Allowed
    ELSE Denied("DeniedIllegalDowngradeByNonRegulator")

\* evaluate_reversal without the absolute ceiling test on roh_after.
evaluate_reversal_without_ceiling(c) ==
    IF c.diag_event
    THEN Denied("DeniedIllegalDowngradeByNonRegulator")
    ELSE IF c.cap_before = "CapControlledHuman" /\ FGt(c.roh_after, c.roh_before)
    THEN Denied("DeniedRoHViolation")
    ELSE IF ~is_neuromorph_downgrade(c.cap_before, c.cap_after)
    THEN Allowed
    ELSE Denied("DeniedIllegalDowngradeByNonRegulator")

\* evaluate_reversal with the downgrade test placed before the RoH tests.
evaluate_reversal_downgrade_first(c) ==
    IF c.diag_event
    THEN Denied("DeniedIllegalDowngradeByNonRegulator")
    ELSE IF is_neuromorph_downgrade(c.cap_before, c.cap_after)
    THEN Denied("DeniedIllegalDowngradeByNonRegulator")
    ELSE IF c.cap_before = "CapControlledHuman" /\ FGt(c.roh_after, c.roh_before)
    THEN Denied("DeniedRoHViolation")
    ELSE IF c.cap_before = "CapControlledHuman" /\ FGt(c.roh_after, RohCeil)
    THEN Denied("DeniedRoHViolation")
    ELSE Allowed

\* evaluate_reversal.
evaluate_reversal(c) ==
    IF c.diag_event
    THEN Denied("DeniedIllegalDowngradeByNonRegulator")
    ELSE IF c.cap_before = "CapControlledHuman" /\ FGt(c.roh_after, c.roh_before)
    THEN Denied("DeniedRoHViolation")
    ELSE IF c.cap_before = "CapControlledHuman" /\ FGt(c.roh_after, RohCeil)
    THEN Denied("DeniedRoHViolation")
    ELSE IF ~is_neuromorph_downgrade(c.cap_before, c.cap_after)
    THEN Allowed
    ELSE Denied("DeniedIllegalDowngradeByNonRegulator")

\* Risk-of-harm scores supplied to the guard: below, at and just above the
\* ceiling, and NaN.
RohScores == {Frac(2, 10), Frac(25, 100), NaN} \cup {RohCeil + d : d \in EpsSteps}

InitReversal ==
    /\ pc = "call"
    /\ ctx \in [cap_before : CapabilityState, cap_after : CapabilityState,
                roh_before : RohScores, roh_after : RohScores, diag_event : BOOLEAN]
    /\ site = MkSite(EnvBase, TerrBase, StressBase, RatioBase, IdBase)
    /\ base_cfg = NoCorridor
    /\ proposed = NoChange
    /\ debug_assertions = TRUE
    /\ ledger = NoLedger
    /\ event = NoEvent
    /\ sent = <<>>
    /\ Idle
    /\ out = NoResult

\* One call of evaluate_reversal.
EvaluateReversal ==
    /\ pc = "call"
    /\ out' = evaluate_reversal(ctx)
    /\ pc' = "returned"
    /\ UNCHANGED <<site, base_cfg, proposed, debug_assertions, ctx, ledger, event, sent, args, tree, tasks, token, backends>>

NextReversal == EvaluateReversal

SpecReversal == InitReversal /\ [][NextReversal]_vars

\* The fixed downgrade set of the capability lattice.
DowngradeSet ==
    {<<"CapControlledHuman", "CapLabBench">>, <<"CapControlledHuman", "CapModelOnly">>,
     <<"CapGeneralUse", "CapControlledHuman">>, <<"CapGeneralUse", "CapLabBench">>,
     <<"CapGeneralUse", "CapModelOnly">>}

\* C9: every (from, to) pair of the downgrade set is Denied, whatever the
\* risk-of-harm scores and the observer flag; it is never Allowed.
C9_DowngradeAlwaysDenied ==
    (pc = "returned" /\ <<ctx.cap_before, ctx.cap_after>> \in DowngradeSet)
        => out.decision = "Denied"

C9_Witness ==
    /\ pc = "returned"
    /\ <<ctx.cap_before, ctx.cap_after>> = <<"CapGeneralUse", "CapControlledHuman">>
    /\ ~ctx.diag_event
    /\ FLt(ctx.roh_after, ctx.roh_before)
    /\ out.decision = "Denied"

\* C10: a context whose observer flag is set is Denied with the reason
\* illegal-downgrade-by-non-regulator, whatever its capability states and
\* risk-of-harm scores.
C10_ObserverVeto ==
    (pc = "returned" /\ ctx.diag_event)
        => out = Denied("DeniedIllegalDowngradeByNonRegulator")

C10_Witness ==
    /\ pc = "returned"
    /\ ctx.diag_event
    /\ ctx.cap_before = "CapControlledHuman"
    /\ ctx.cap_after = "CapControlledHuman"
    /\ FGt(ctx.roh_after, ctx.roh_before)
    /\ FGt(ctx.roh_after, RohCeil)
    /\ out = Denied("DeniedIllegalDowngradeByNonRegulator")

\* The risk-of-harm tests of the guard fail: the score rises or ends above
\* the ceiling.
RohViolated == FGt(ctx.roh_after, ctx.roh_before) \/ FGt(ctx.roh_after, RohCeil)

\* C11: with the observer flag false, the decision is Denied with the reason
\* risk-of-harm violation exactly when the before state is ControlledHuman
\* and the score rises (after > before) or ends above 0.30; for any other
\* before state the scores never produce that denial.
C11_RohDenialExactlyForControlledHuman ==
    (pc = "returned" /\ ~ctx.diag_event)
        => (out = Denied("DeniedRoHViolation")
              <=> (ctx.cap_before = "CapControlledHuman" /\ RohViolated))

C11_Witness ==
    /\ pc = "returned"
    /\ ~ctx.diag_event
    /\ ctx.cap_before = "CapControlledHuman"
    /\ ~FGt(ctx.roh_after, ctx.roh_before)
    /\ FGt(ctx.roh_after, RohCeil)
    /\ out = Denied("DeniedRoHViolation")

C11_WitnessOtherState ==
    /\ pc = "returned"
    /\ ~ctx.diag_event
    /\ ctx.cap_before = "CapGeneralUse"
    /\ FGt(ctx.roh_after, ctx.roh_before)
    /\ FGt(ctx.roh_after, RohCeil)
    /\ out # Denied("DeniedRoHViolation")

\* The risk-of-harm check passes as the guard's contract words it: the before
\* state is not ControlledHuman, or after <= before and after <= 0.30.
RohCheckPasses ==
    \/ ctx.cap_before # "CapControlledHuman"
    \/ FLe(ctx.roh_after, ctx.roh_before) /\ FLe(ctx.roh_after, RohCeil)

WideEnvCases ==
    {EnvBase}
    \cup {[EnvBase EXCEPT !.delta_roh = -Frac(1, 2), !.delta_decay = -One]}
    \cup {[EnvBase EXCEPT !.roh = 0, !.decay = 0, !.lifeforce = lf] :
             lf \in {Frac(1, 10), Frac(1, 2), Frac(9, 10), NaN}}
    \cup {[EnvBase EXCEPT !.roh = NaN]}

\* Identities: the base, no risk with full trust, deltas that leave [0, 1] on
\* either side, a lifeforce delta, and a NaN field.
WideIdCases ==
    {IdBase}
    \cup {[IdBase EXCEPT !.biostate_load = 0, !.neurostate_fear = 0, !.context_load = 0,
                         !.sovereignty_trust = One]}
    \cup {[IdBase EXCEPT !.delta_biostate_load = -One, !.delta_neurostate_fear = One,
                         !.delta_context_load = -One, !.delta_sovereignty_trust = Frac(3, 2)]}
    \cup {[IdBase EXCEPT !.delta_lifeforce = Frac(6, 10)]}
    \cup {[IdBase EXCEPT !.biostate_load = NaN]}

\* Territorial loads whose deltas leave [0, 1] on either side.
WideTerrCases ==
    {TerrBase}
    \cup {[TerrBase EXCEPT !.delta_bioload_body = -One, !.delta_bioload_room = -Frac(1, 2)]}
    \cup {[TerrBase EXCEPT !.grid_max = One, !.delta_bioload_grid = One]}

\* Ratio pairs: within the ratio, beyond it, and a delta below -power.
WideRatioCases ==
    {RatioBase}
    \cup {[RatioBase EXCEPT !.power = Frac(1, 2), !.delta_power = Frac(1, 10)]}
    \cup {[RatioBase EXCEPT !.delta_power = -One]}

\* Justice metrics: no stress, and stress with the factor 0.8.
WideStressCases == {StressBase, [StressBase EXCEPT !.erg = Frac(6, 10)]}

\* Baseline corridors.
WideCorridorCases ==
    {[corridor_min |-> new_clamped(lo), corridor_max |-> new_clamped(hi)] :
        <<lo, hi>> \in {<<0, One>>, <<Frac(3, 10), Frac(55, 100)>>}}

\* DiagnosticFlags of the callers.
DiagCases ==
    {[beast_tag |-> t, plague_tag |-> FALSE, unfair_drain |-> t, role_diagnostic_only |-> r] :
        t \in BOOLEAN, r \in BOOLEAN}

InitBuilds ==
    /\ pc = "call"
    /\ \E e \in WideEnvCases, t \in WideTerrCases, j \in WideStressCases,
          r \in WideRatioCases, i \in WideIdCases, d \in DiagCases :
          /\ site = [MkSite(e, t, j, r, i) EXCEPT !.diag = d]
          /\ proposed = MkChange(e, t, r, i)
    /\ base_cfg \in WideCorridorCases
    /\ debug_assertions \in BOOLEAN
    /\ ctx = NoCtx
    /\ ledger = NoLedger
    /\ event = NoEvent
    /\ sent = <<>>
    /\ Idle
    /\ out = NoResult

\* A second call of gate after the first returned (a panic ends the caller):
\* the snapshot is now s2, and the verdict of the first call is remembered.
GateAgain(s2) ==
    /\ pc = "returned"
    /\ out.verdict \in {"Allow", "Downscale", "Block", "ForceRepair"}
    /\ site' = s2
    /\ out' = [verdict |-> gate(s2, base_cfg, proposed, debug_assertions).verdict,
               first_verdict |-> out.verdict]
    /\ pc' = "returned_again"
    /\ UNCHANGED <<base_cfg, proposed, debug_assertions, ctx, ledger, event, sent, args, tree, tasks, token, backends>>

\* The flag beast_tag of the snapshot flips between the two calls.
FlipBeastTag == GateAgain([site EXCEPT !.diag.beast_tag = ~@])

\* The flag plague_tag of the snapshot flips between the two calls.
FlipPlagueTag == GateAgain([site EXCEPT !.diag.plague_tag = ~@])

\* The flag unfair_drain of the snapshot flips between the two calls.
FlipUnfairDrain == GateAgain([site EXCEPT !.diag.unfair_drain = ~@])

NextBuilds == Gate \/ FlipBeastTag \/ FlipPlagueTag \/ FlipUnfairDrain

SpecBuilds == InitBuilds /\ [][NextBuilds]_vars

\* The four verdicts of GateVerdict.
GateVerdicts == {"Allow", "Downscale", "Block", "ForceRepair"}

\* C13: in a build without debug assertions, a call with
\* role_diagnostic_only unset returns ForceRepair for every snapshot and
\* change, never Allow or Downscale.
C13_ProductionMisuseFailsClosed ==
    (pc = "returned" /\ ~debug_assertions /\ ~site.diag.role_diagnostic_only)
        => out.verdict = "ForceRepair"

\* C14: two calls whose snapshots differ only in beast_tag, plague_tag or
\* unfair_drain, with role_diagnostic_only true in both and the same corridor
\* and change, return the same verdict.
C14_TagsNeverInfluenceVerdict ==
    (pc = "returned_again" /\ site.diag.role_diagnostic_only)
        => out.verdict = out.first_verdict

C14_Witness ==
    /\ pc = "returned_again"
    /\ site.diag.role_diagnostic_only
    /\ site.diag.unfair_drain
    /\ ~site.diag.beast_tag
    /\ ~stressed(site)
    /\ out.verdict = "Downscale"
    /\ out.first_verdict = "Downscale"

\* C15 as stated: every call returns one of the four verdicts and never
\* aborts, the flag unset and NaN fields included.
C15_GateNeverAborts == (pc = "returned") => out.verdict \in GateVerdicts

\* C15 as amended: a call aborts exactly when it is made in a build with
\* debug assertions and with role_diagnostic_only unset; every other call,
\* NaN fields included, returns one of the four verdicts.
C15_GateAbortsOnlyOnDebugMisuse ==
    (pc = "returned")
        => IF debug_assertions /\ ~site.diag.role_diagnostic_only
           THEN out.verdict = "Panic"
           ELSE out.verdict \in GateVerdicts

C15_Witness ==
    /\ pc = "returned"
    /\ ~debug_assertions
    /\ ~site.diag.role_diagnostic_only
    /\ IsNaN(site.bio_env.lifeforce)
    /\ IsNaN(site.identity_5d.biostate_load)
    /\ out.verdict \in GateVerdicts

(***************************************************************************)
(* The deed ledger.  A string is a sequence of naturals; the event's       *)
(* identifiers are naturals.  The vectors and the map of a DeedEvent are   *)
(* empty throughout and serialise to a fixed text, which is left out.      *)
(***************************************************************************)

\* String::new().
EmptyString == <<>>

\* The string "genesis" that an empty ledger expects as prev_hash.
Genesis == <<1>>

\* A prev_hash that is neither "genesis" nor the hash of any event.
StaleHash == <<3>>

\* serde_json::to_string of a DeedEvent: every field of the struct in
\* declaration order, self_hash included, strings with their length.
to_string(e) ==
    <<e.event_id, e.timestamp, Len(e.prev_hash)>> \o e.prev_hash
        \o <<Len(e.self_hash)>> \o e.self_hash
        \o <<e.actor_id, e.deed_type, IF e.life_harm_flag THEN 1 ELSE 0>>

\* utils::crypto::hash_json: a digest without collisions, distinct from
\* "genesis" and from the empty string.
hash_json(serialized) == <<2>> \o serialized

\* DeedEvent::new; event_id and timestamp are the values Uuid::new_v4 and
\* SystemTime::now produced.
DeedEvent_new(prev_hash, actor_id, deed_type, life_harm_flag, event_id, timestamp) ==
    LET ev == [event_id |-> event_id, timestamp |-> timestamp, prev_hash |-> prev_hash,
               self_hash |-> EmptyString, actor_id |-> actor_id, deed_type |-> deed_type,
               life_harm_flag |-> life_harm_flag]
        serialized == to_string(ev)
    IN  [ev EXCEPT !.self_hash = hash_json(serialized)]

\* DeedEvent::validate.
validate(e, expected_prev_hash) ==
    LET serialized == to_string(e)
        computed_hash == hash_json(serialized)
    IN  IF computed_hash # e.self_hash
        THEN FALSE
        ELSE IF e.prev_hash # expected_prev_hash
        THEN FALSE
        ELSE TRUE

\* The expected_prev_hash of Ledger::append.
expected_prev_hash_of(l) ==
    IF l.events = <<>> THEN Genesis ELSE l.events[Len(l.events)].self_hash

\* Ledger::append pushing the event before it is validated: a rejected event
\* is stored as well.
append_before_validation(l, e) ==
    LET expected_prev_hash == expected_prev_hash_of(l)
        pushed == [l EXCEPT !.events = Append(@, e)]
    IN  IF ~validate(e, expected_prev_hash)
        THEN [result |-> "Err", ledger |-> pushed]
        ELSE [result |-> "Ok", ledger |-> pushed]

\* Ledger::append: the result and the ledger after the call.
append(l, e) ==
    LET expected_prev_hash == expected_prev_hash_of(l)
    IN  IF ~validate(e, expected_prev_hash)
        THEN [result |-> "Err", ledger |-> l]
        ELSE [result |-> "Ok", ledger |-> [l EXCEPT !.events = Append(@, e)]]

\* The number of events of a sequence with life_harm_flag = flag.
RECURSIVE count_flag(_, _)
count_flag(evs, flag) ==
    IF evs = <<>> THEN 0
    ELSE count_flag(Tail(evs), flag) + (IF Head(evs).life_harm_flag = flag THEN 1 ELSE 0)

\* Ledger::compute_metrics.
compute_metrics(l) ==
    LET good_deeds == count_flag(l.events, FALSE)
        harm_flags == count_flag(l.events, TRUE)
    IN  [total_events |-> Len(l.events), good_deeds |-> good_deeds,
         harm_flags |-> harm_flags,
         balance |-> [church_tokens |-> good_deeds * l.config.token_mint_rate]]

\* A caller chains at most MaxEvents events to the tip.
MaxEvents == 3

\* Values of event_id, timestamp, actor_id and deed_type.
MaxId == 2

InitLedger ==
    /\ pc = "idle"
    /\ \E rate \in {1, 10} : ledger = [events |-> <<>>, config |-> [token_mint_rate |-> rate]]
    /\ event = NoEvent
    /\ sent = <<>>
    /\ Idle
    /\ site = MkSite(EnvBase, TerrBase, StressBase, RatioBase, IdBase)
    /\ base_cfg = NoCorridor
    /\ proposed = NoChange
    /\ debug_assertions = TRUE
    /\ ctx = NoCtx
    /\ out = NoResult

\* The caller builds an event with DeedEvent::new, chained to the tip of the
\* ledger or to a stale hash.
NewEvent ==
    /\ pc = "idle"
    /\ Len(sent) < MaxEvents
    /\ \E prev_hash \in {expected_prev_hash_of(ledger), StaleHash},
          actor_id \in 1..MaxId, life_harm_flag \in BOOLEAN,
          event_id \in 1..MaxId, timestamp \in 1..MaxId :
          event' = DeedEvent_new(prev_hash, actor_id, 1, life_harm_flag, event_id, timestamp)
    /\ pc' = "built"
    /\ UNCHANGED <<site, base_cfg, proposed, debug_assertions, ctx, ledger, sent, out, args, tree, tasks, token, backends>>

\* The caller appends the event it built; chained tells whether the event's
\* prev_hash was the tip the ledger expected.
AppendEvent ==
    /\ pc = "built"
    /\ LET chained == event.prev_hash = expected_prev_hash_of(ledger)
           r == append(ledger, event)
       IN  /\ ledger' = r.ledger
           /\ out' = [verdict |-> "None", result |-> r.result, chained |-> chained]
           /\ sent' = IF chained THEN Append(sent, event.life_harm_flag) ELSE sent
    /\ pc' = "appended"
    /\ UNCHANGED <<site, base_cfg, proposed, debug_assertions, ctx, event, args, tree, tasks, token, backends>>

\* The caller reads the metrics of the ledger.
ComputeMetrics ==
    /\ pc = "appended"
    /\ out' = [verdict |-> "None", metrics |-> compute_metrics(ledger)]
    /\ pc' = "idle"
    /\ UNCHANGED <<site, base_cfg, proposed, debug_assertions, ctx, ledger, event, sent, args, tree, tasks, token, backends>>

\* The caller goes on without reading the metrics.
Continue ==
    /\ pc = "appended"
    /\ pc' = "idle"
    /\ UNCHANGED <<site, base_cfg, proposed, debug_assertions, ctx, ledger, event, sent, out, args, tree, tasks, token, backends>>

NextLedger == NewEvent \/ AppendEvent \/ ComputeMetrics \/ Continue

SpecLedger == InitLedger /\ [][NextLedger]_vars

\* The number of entries of a sequence of flags equal to flag.
RECURSIVE CountSent(_, _)
CountSent(flags, flag) ==
    IF flags = <<>> THEN 0
    ELSE CountSent(Tail(flags), flag) + (IF Head(flags) = flag THEN 1 ELSE 0)

\* C16: every append of an event built by DeedEvent::new with prev_hash equal
\* to the ledger's tip returns Ok, so after n such appends compute_metrics
\* reports n events, good_deeds counting those without life_harm_flag and
\* harm_flags those with it.
C16_ChainedAppendsAccepted ==
    /\ (pc = "appended" /\ out.chained) => out.result = "Ok"
    /\ (pc = "idle" /\ "metrics" \in DOMAIN out)
          => /\ out.metrics.total_events = Len(sent)
             /\ out.metrics.good_deeds = CountSent(sent, FALSE)
             /\ out.metrics.harm_flags = CountSent(sent, TRUE)

(***************************************************************************)
(* Further properties of the reversal guard.                               *)
(***************************************************************************)

\* C17 as stated: every pair of the downgrade set is Denied with the reason
\* illegal-downgrade-by-non-regulator, the same for every combination of
\* risk-of-harm scores and observer flag.
C17_DowngradeReasonUnconditional ==
    (pc = "returned" /\ <<ctx.cap_before, ctx.cap_after>> \in DowngradeSet)
        => out = Denied("DeniedIllegalDowngradeByNonRegulator")

\* C17 as amended: every pair of the downgrade set is Denied; the reason is
\* risk-of-harm violation when the observer flag is false, the before state
\* is ControlledHuman and the score rises or ends above 0.30, and
\* illegal-downgrade-by-non-regulator in every other case.
C17_DowngradeReasonAfterRohTests ==
    (pc = "returned" /\ <<ctx.cap_before, ctx.cap_after>> \in DowngradeSet)
        => out = IF ~ctx.diag_event /\ ctx.cap_before = "CapControlledHuman" /\ RohViolated
                 THEN Denied("DeniedRoHViolation")
                 ELSE Denied("DeniedIllegalDowngradeByNonRegulator")

C17_Witness ==
    /\ pc = "returned"
    /\ <<ctx.cap_before, ctx.cap_after>> = <<"CapControlledHuman", "CapLabBench">>
    /\ ~ctx.diag_event
    /\ FGt(ctx.roh_after, ctx.roh_before)
    /\ out = Denied("DeniedRoHViolation")

\* Position of a state on the lattice ModelOnly < LabBench < ControlledHuman
\* < GeneralUse.
Rank(c) ==
    CASE c = "CapModelOnly" -> 0
      [] c = "CapLabBench" -> 1
      [] c = "CapControlledHuman" -> 2
      [] c = "CapGeneralUse" -> 3

\* C18: every pair (from, to) with to strictly below from on the lattice is
\* classified as a downgrade and Denied, so an Allowed decision always has
\* the after state at or above the before state.
C18_EveryMoveDownDenied ==
    (pc = "returned" /\ Rank(ctx.cap_after) < Rank(ctx.cap_before))
        => /\ is_neuromorph_downgrade(ctx.cap_before, ctx.cap_after)
           /\ out.decision = "Denied"

(***************************************************************************)
(* Further properties of the predictor and of the rail, over the calls of  *)
(* SpecBuilds.                                                             *)
(***************************************************************************)

\* x is a number of [0, 1].
InUnit(x) == ~IsNaN(x) /\ 0 <= x /\ x <= One

\* x is a number >= 0.
NonNegative(x) == ~IsNaN(x) /\ 0 <= x

\* C19: the predicted snapshot keeps its fields in range: the five identity
\* fields and the three territorial loads lie in [0, 1], and the predicted
\* risk-of-harm, decay and ratio-pair numerator are >= 0.
C19_PredictedFieldsInRange ==
    Returned
        => /\ InUnit(out.locals.pred.id.biostate_load)
           /\ InUnit(out.locals.pred.id.neurostate_fear)
           /\ InUnit(out.locals.pred.id.lifeforce)
           /\ InUnit(out.locals.pred.id.context_load)
           /\ InUnit(out.locals.pred.id.sovereignty_trust)
           /\ InUnit(out.locals.pred.bl.body)
           /\ InUnit(out.locals.pred.bl.room)
           /\ InUnit(out.locals.pred.bl.grid)
           /\ NonNegative(out.locals.pred.env.roh)
           /\ NonNegative(out.locals.pred.env.decay)
           /\ NonNegative(out.locals.pred.pc.power)

\* Every risk axis of the snapshot is 0 and its trust is 1.
NoRiskFullTrust(s) ==
    /\ s.identity_5d.biostate_load = 0
    /\ s.identity_5d.neurostate_fear = 0
    /\ s.identity_5d.context_load = 0
    /\ s.bio_env.roh = 0
    /\ s.bio_env.decay = 0
    /\ s.identity_5d.sovereignty_trust = One

\* C20: the rail of a snapshot whose risk axes are all 0 and whose trust is
\* 1 is exactly 0, wherever its lifeforce lies, inside or outside the band.
C20_NoRiskFullTrustGivesZero ==
    (Returned /\ NoRiskFullTrust(site)) => out.locals.current_b = 0

C20_Witness ==
    /\ Returned
    /\ NoRiskFullTrust(site)
    /\ FLt(site.bio_env.lifeforce, site.bio_env.lifeforce_min)
    /\ out.locals.current_b = 0

(***************************************************************************)
(* The bounded scalar: a caller either constructs RailScalars from raw     *)
(* values and combines them, or computes the rail of a snapshot.           *)
(***************************************************************************)

\* Raw values around both ends of [0, 1], far outside it, inside it and NaN.
ScalarInputs ==
    {NaN, -One, Half, 2 * One}
    \cup {-d : d \in EpsSteps} \cup {d : d \in EpsSteps}
    \cup {One - d : d \in EpsSteps} \cup {One + d : d \in EpsSteps}

\* Snapshots whose rail inputs are at, beyond and between their extremes.
ScalarSites ==
    {MkSite(e, TerrBase, StressBase, RatioBase, i) : e \in WideEnvCases, i \in WideIdCases}
    \cup {MkSite([EnvBase EXCEPT !.roh = Frac(6, 10), !.decay = Frac(3, 2), !.lifeforce = l],
                 TerrBase, StressBase, RatioBase,
                 [IdBase EXCEPT !.biostate_load = Frac(3, 2), !.neurostate_fear = One,
                                !.context_load = 2 * One, !.sovereignty_trust = t]) :
              l \in {0, Frac(1, 2), NaN}, t \in {-Frac(1, 2), 0, NaN}}

InitScalar ==
    /\ pc \in {"scalar", "rail"}
    /\ IF pc = "scalar"
       THEN /\ args \in ScalarInputs \X ScalarInputs
            /\ site = MkSite(EnvBase, TerrBase, StressBase, RatioBase, IdBase)
       ELSE /\ args = <<>>
            /\ site \in ScalarSites
    /\ base_cfg = NoCorridor
    /\ proposed = NoChange
    /\ debug_assertions = TRUE
    /\ ctx = NoCtx
    /\ ledger = NoLedger
    /\ event = NoEvent
    /\ sent = <<>>
    /\ tree = [traits |-> <<>>]
    /\ tasks = <<>>
    /\ token = [status |-> "None"]
    /\ backends = [calls |-> <<>>]
    /\ out = NoResult

\* The result v of the RailScalar operation op.
ScalarResult(op, v) ==
    /\ out' = [verdict |-> "None", op |-> op, v |-> v]
    /\ pc' = "scalar_done"
    /\ UNCHANGED <<site, base_cfg, proposed, debug_assertions, ctx, ledger, event, sent,
                   args, tree, tasks, token, backends>>

\* RailScalar::new_clamped(x).value() on the first raw value.
NewClamped == pc = "scalar" /\ ScalarResult("new_clamped", new_clamped(args[1]))

\* a.max(b).value() of the RailScalars constructed from the two raw values.
RailMax ==
    pc = "scalar" /\ ScalarResult("max", rail_max(new_clamped(args[1]), new_clamped(args[2])))

\* a.min(b).value() of the RailScalars constructed from the two raw values.
RailMin ==
    pc = "scalar" /\ ScalarResult("min", rail_min(new_clamped(args[1]), new_clamped(args[2])))

NextScalar == NewClamped \/ RailMax \/ RailMin \/ ComputeRail

SpecScalar == InitScalar /\ [][NextScalar]_vars

\* C21: new_clamped yields a value of [0, 1] for every input, NaN (which
\* gives 0) included, and is the identity on [0, 1]; max and min of bounded
\* scalars are in [0, 1]; the rail of compute_biosignature is in [0, 1].
C21_BoundedScalarStaysInUnit ==
    /\ pc = "scalar_done" => InUnit(out.v)
    /\ (pc = "scalar_done" /\ out.op = "new_clamped")
          => /\ InUnit(args[1]) => out.v = args[1]
             /\ IsNaN(args[1]) => out.v = 0
    /\ pc = "computed" => InUnit(out.b)

C21_Witness ==
    /\ pc = "scalar_done"
    /\ out.op = "max"
    /\ IsNaN(args[1])
    /\ args[2] > One
    /\ out.v = One

(***************************************************************************)
(* The Tree-of-Life evaluation.  A deed type is a natural: 1 for           *)
(* "ecological_sustainability", 2 for "homelessness_relief", any other for *)
(* an unknown type.  The map traits is a function from event ids.          *)
(***************************************************************************)

\* TreeTrait::branch: the branch that holds the one trait.
branch(trait) ==
    IF trait \in {"Love", "Guilt", "Evil", "Freedom", "Speech", "Blood"}
    THEN [branch |-> "Branch1", traits |-> <<trait>>]
    ELSE IF trait \in {"War", "Justice", "Declare", "Karma", "Courage", "Nano", "Life",
                       "Prediction", "Fear", "Power", "Spirit"}
    THEN [branch |-> "Branch2", traits |-> <<trait>>]
    ELSE [branch |-> "Branch3", traits |-> <<trait>>]

\* moral_score with the base scores exchanged.
moral_score_bases_exchanged(trait, deed) ==
    LET base_score == IF deed.life_harm_flag THEN 10 ELSE -10
        ethics_penalty == Len(deed.ethics_flags) * (-5)
    IN  base_score + ethics_penalty

\* TreeTrait::moral_score.
moral_score(trait, deed) ==
    LET base_score == IF deed.life_harm_flag THEN -10 ELSE 10
        ethics_penalty == Len(deed.ethics_flags) * (-5)
    IN  base_score + ethics_penalty

\* The relevant_traits of evaluate_deed.
relevant_traits(deed_type) ==
    CASE deed_type = 1 -> <<"Life", "Peace", "Wise">>
      [] deed_type = 2 -> <<"Love", "Justice", "Karma">>
      [] OTHER -> <<"Knowledge">>

\* HashMap::insert.
insert(map, key, value) ==
    [k \in DOMAIN map \cup {key} |-> IF k = key THEN value ELSE map[k]]

\* The loop of evaluate_deed over the traits still to visit: the total score
\* and the trait map after it.
RECURSIVE evaluate_traits(_, _, _, _)
evaluate_traits(todo, deed, total_score, traits) ==
    IF todo = <<>> THEN [total_score |-> total_score, traits |-> traits]
    ELSE LET trait == Head(todo)
             score == moral_score(trait, deed)
         IN  evaluate_traits(Tail(todo), deed, total_score + score,
                             insert(traits, deed.event_id, branch(trait)))

\* TreeOfLife::evaluate_deed: Ok(total_score) and the tree after the call.
evaluate_deed(t, deed) ==
    LET r == evaluate_traits(relevant_traits(deed.deed_type), deed, 0, t.traits)
    IN  [result |-> "Ok", total_score |-> r.total_score,
         tree |-> [t EXCEPT !.traits = r.traits]]

\* The loop of compute_eco_grant over the entries with the given keys.
RECURSIVE grant_of(_, _)
grant_of(traits, keys) ==
    IF keys = {} THEN 0
    ELSE LET k == CHOOSE x \in keys : TRUE
             b == traits[k]
             g == CASE b.branch = "Branch1" -> Len(b.traits) * 5
                    [] b.branch = "Branch2" -> Len(b.traits) * 10
                    [] b.branch = "Branch3" -> Len(b.traits) * 15
         IN  g + grant_of(traits, keys \ {k})

\* TreeOfLife::compute_eco_grant.
compute_eco_grant(t) == grant_of(t.traits, DOMAIN t.traits) * t.config.eco_grant_multiplier

\* The largest eco_grant_multiplier of a Config.
MaxMultiplier == 2

\* The largest number of ethics flags of a deed.
MaxFlags == 2

\* The deed events handed to the tree: the fields evaluate_deed reads.
TreeDeeds ==
    [event_id : 1..MaxId, deed_type : 1..3, life_harm_flag : BOOLEAN,
     ethics_flags : {[j \in 1..n |-> j] : n \in 0..MaxFlags}]

InitTree ==
    /\ pc = "tree"
    /\ \E m \in 0..MaxMultiplier :
          tree = [traits |-> <<>>, config |-> [eco_grant_multiplier |-> m]]
    /\ args = <<>>
    /\ tasks = <<>>
    /\ token = [status |-> "None"]
    /\ backends = [calls |-> <<>>]
    /\ site = MkSite(EnvBase, TerrBase, StressBase, RatioBase, IdBase)
    /\ base_cfg = NoCorridor
    /\ proposed = NoChange
    /\ debug_assertions = TRUE
    /\ ctx = NoCtx
    /\ ledger = NoLedger
    /\ event = NoEvent
    /\ sent = <<>>
    /\ out = NoResult

\* One call of evaluate_deed on a deed event.
EvaluateDeed ==
    /\ pc \in {"tree", "evaluated", "granted"}
    /\ \E deed \in TreeDeeds :
          LET r == evaluate_deed(tree, deed)
          IN  /\ event' = deed
              /\ tree' = r.tree
              /\ out' = [verdict |-> "None", result |-> r.result,
                         total_score |-> r.total_score]
    /\ pc' = "evaluated"
    /\ UNCHANGED <<site, base_cfg, proposed, debug_assertions, ctx, ledger, sent,
                   args, tasks, token, backends>>

\* One call of compute_eco_grant.
ComputeEcoGrant ==
    /\ pc \in {"tree", "evaluated"}
    /\ out' = [verdict |-> "None", grant |-> compute_eco_grant(tree)]
    /\ pc' = "granted"
    /\ UNCHANGED <<site, base_cfg, proposed, debug_assertions, ctx, ledger, event, sent,
                   args, tree, tasks, token, backends>>

NextTree == EvaluateDeed \/ ComputeEcoGrant

SpecTree == InitTree /\ [][NextTree]_vars

TuningCases ==
    StressCases
    \cup {[StressBase EXCEPT !.tecr = Frac(6, 10), !.tightening_factor = f] :
             f \in {Frac(1, 2), -Frac(1, 2), NaN}}

InitTuning ==
    /\ pc = "tune"
    /\ \E t \in TerrCases, j \in TuningCases :
          site = MkSite(EnvBase, t, j, RatioBase, IdBase)
    /\ base_cfg \in CorridorCases
    /\ proposed = NoChange
    /\ debug_assertions = TRUE
    /\ ctx = NoCtx
    /\ ledger = NoLedger
    /\ event = NoEvent
    /\ sent = <<>>
    /\ Idle
    /\ out = NoResult

\* One call of apply_justice_tuning on the snapshot's own territorial view.
Tune ==
    /\ pc = "tune"
    /\ out' = [verdict |-> "None",
               tuned |-> apply_justice_tuning(site, base_cfg, site.bioload_view)]
    /\ pc' = "tuned"
    /\ UNCHANGED <<site, base_cfg, proposed, debug_assertions, ctx, ledger, event, sent,
                   args, tree, tasks, token, backends>>

NextTuning == Tune

SpecTuning == InitTuning /\ [][NextTuning]_vars

\* C23: under stress the tuned corridor has the midpoint of the baseline and
\* f times its width, every tuned ceiling is f times the baseline ceiling,
\* and the measured loads are those of the input, where f is the
\* tightening_factor clamped to [0, 1].
C23_StressNarrowsSymmetrically ==
    (pc = "tuned" /\ stressed(site))
        => LET f == FClamp(site.justice_cfg.tightening_factor, 0, One)
               t == out.tuned
               b == site.bioload_view
           IN  /\ t.cfg.corridor_min + t.cfg.corridor_max
                    = base_cfg.corridor_min + base_cfg.corridor_max
               /\ t.cfg.corridor_max - t.cfg.corridor_min
                    = FMul(f, base_cfg.corridor_max - base_cfg.corridor_min)
               /\ t.bioload.body_max = FMul(f, b.body_max)
               /\ t.bioload.room_max = FMul(f, b.room_max)
               /\ t.bioload.grid_max = FMul(f, b.grid_max)
               /\ t.bioload.body = b.body
               /\ t.bioload.room = b.room
               /\ t.bioload.grid = b.grid

(***************************************************************************)
(* Concurrent callers of Ledger::append.  Every caller holds a clone of    *)
(* the ledger (one shared events vector behind a RwLock) and an event; a   *)
(* call first awaits the write lock and then runs to its return under it.  *)
(***************************************************************************)

\* The number of concurrent callers.
MaxTasks == 2

\* The events a caller may hold: built by DeedEvent::new on "genesis" or on
\* a stale hash, or such an event with its self_hash field overwritten.
TaskEvents(t) ==
    LET built == {DeedEvent_new(prev, t, 1, flag, t, 1) :
                     prev \in {Genesis, StaleHash}, flag \in BOOLEAN}
    IN  built \cup {[e EXCEPT !.self_hash = EmptyString] : e \in built}

InitAppenders ==
    /\ pc = "spawned"
    /\ ledger = [events |-> <<>>, config |-> [token_mint_rate |-> 1]]
    /\ tasks \in {f \in [1..MaxTasks -> [at : {"start"}, result : {"None"},
                                          event : UNION {TaskEvents(t) : t \in 1..MaxTasks}]] :
                     \A t \in 1..MaxTasks : f[t].event \in TaskEvents(t)}
    /\ event = NoEvent
    /\ sent = <<>>
    /\ args = <<>>
    /\ tree = [traits |-> <<>>]
    /\ token = [status |-> "None"]
    /\ backends = [calls |-> <<>>]
    /\ site = MkSite(EnvBase, TerrBase, StressBase, RatioBase, IdBase)
    /\ base_cfg = NoCorridor
    /\ proposed = NoChange
    /\ debug_assertions = TRUE
    /\ ctx = NoCtx
    /\ out = NoResult

\* self.events.write().await of caller t: granted when no caller holds it.
AcquireWrite(t) ==
    /\ tasks[t].at = "start"
    /\ \A u \in DOMAIN tasks : tasks[u].at # "locked"
    /\ tasks' = [tasks EXCEPT ![t].at = "locked"]
    /\ UNCHANGED <<pc, site, base_cfg, proposed, debug_assertions, ctx, ledger, event, sent,
                   out, args, tree, token, backends>>

\* The rest of caller t's append, under the lock, up to its return, which
\* drops the guard.
AppendLocked(t) ==
    /\ tasks[t].at = "locked"
    /\ LET r == append(ledger, tasks[t].event)
       IN  /\ ledger' = r.ledger
           /\ tasks' = [tasks EXCEPT ![t].at = "done", ![t].result = r.result]
    /\ UNCHANGED <<pc, site, base_cfg, proposed, debug_assertions, ctx, event, sent,
                   out, args, tree, token, backends>>

\* Caller t calls append again with the same event.
AppendAgain(t) ==
    /\ tasks[t].at = "done"
    /\ Len(ledger.events) < MaxEvents
    /\ tasks[t].result = "Err"
    /\ tasks' = [tasks EXCEPT ![t].at = "start", ![t].result = "None"]
    /\ UNCHANGED <<pc, site, base_cfg, proposed, debug_assertions, ctx, ledger, event, sent,
                   out, args, tree, token, backends>>

NextAppenders ==
    \E t \in 1..MaxTasks : AcquireWrite(t) \/ AppendLocked(t) \/ AppendAgain(t)

SpecAppenders == InitAppenders /\ [][NextAppenders]_vars

\* The stored events form a hash chain that starts at "genesis".
HashChain(evs) ==
    \A i \in 1..Len(evs) :
        evs[i].prev_hash = IF i = 1 THEN Genesis ELSE evs[i - 1].self_hash

\* No two stored events were accepted on the same tip.
OnePerTip(evs) ==
    \A i, j \in 1..Len(evs) : i # j => evs[i].prev_hash # evs[j].prev_hash

\* The stored events before a step are kept, in place, by the step.
KeptBy(before, after) ==
    /\ Len(before) <= Len(after)
    /\ \A i \in 1..Len(before) : after[i] = before[i]

is_fresh_before_grant(lifetime, now) ==
    IF now >= lifetime.granted_at
    THEN (now - lifetime.granted_at) <= lifetime.max_age
    ELSE TRUE

\* ConsentLifetime::is_fresh: duration_since is Err when now is earlier than
\* granted_at.
is_fresh(lifetime, now) ==
    IF now >= lifetime.granted_at
    THEN (now - lifetime.granted_at) <= lifetime.max_age
    ELSE FALSE

\* FpicToken::new.
FpicToken_new(granted_at, max_age) ==
    [status |-> "Granted", lifetime |-> [granted_at |-> granted_at, max_age |-> max_age]]

\* FpicToken::veto.
veto(t) == [t EXCEPT !.status = "Revoked"]

\* FpicToken::status.
status(t, now) == IF ~is_fresh(t.lifetime, now) THEN "Revoked" ELSE t.status

\* CareAttestation::is_fully_care_aligned.
is_fully_care_aligned(care) ==
    care.collective_benefit /\ care.authority_to_control /\ care.responsibility /\ care.ethics

\* SovereignRuntimeGuard::check_fpic_and_care.
check_fpic_and_care(c) ==
    IF status(c.fpic, c.now) # "Granted"
    THEN "Err: FPIC veto or stale consent"
    ELSE IF ~is_fully_care_aligned(c.care)
    THEN "Err: CARE alignment missing"
    ELSE "Ok"

\* Times of grant and maximal ages run over 0 .. MaxTime.
MaxTime == 3

\* The values of now: before, within and after every window.
Times == 0..(2 * MaxTime + 1)

InitFpic ==
    /\ pc = "token"
    /\ \E granted_at \in 0..MaxTime, max_age \in 0..MaxTime :
          token = FpicToken_new(granted_at, max_age)
    /\ args = <<>>
    /\ tree = [traits |-> <<>>]
    /\ tasks = <<>>
    /\ backends = [calls |-> <<>>]
    /\ site = MkSite(EnvBase, TerrBase, StressBase, RatioBase, IdBase)
    /\ base_cfg = NoCorridor
    /\ proposed = NoChange
    /\ debug_assertions = TRUE
    /\ ctx = NoCtx
    /\ ledger = NoLedger
    /\ event = NoEvent
    /\ sent = <<>>
    /\ out = NoResult

\* The holder calls veto; from then on it is at "vetoed".
Veto ==
    /\ pc \in {"token", "vetoed"}
    /\ token' = veto(token)
    /\ out' = [verdict |-> "None", op |-> "veto"]
    /\ pc' = "vetoed"
    /\ UNCHANGED <<site, base_cfg, proposed, debug_assertions, ctx, ledger, event, sent,
                   args, tree, tasks, backends>>

\* A call of status at the time now.
Status ==
    /\ pc \in {"token", "vetoed"}
    /\ \E now \in Times :
          out' = [verdict |-> "None", op |-> "status", now |-> now,
                  result |-> status(token, now)]
    /\ UNCHANGED <<pc, site, base_cfg, proposed, debug_assertions, ctx, ledger, event, sent,
                   args, tree, tasks, token, backends>>

\* A call of check_fpic_and_care at the time now with a CARE attestation.
CheckFpicAndCare ==
    /\ pc \in {"token", "vetoed"}
    /\ \E now \in Times, aligned \in BOOLEAN :
          LET care == [collective_benefit |-> TRUE, authority_to_control |-> aligned,
                       responsibility |-> TRUE, ethics |-> aligned]
          IN  out' = [verdict |-> "None", op |-> "check", now |-> now, care |-> care,
                      result |-> check_fpic_and_care([fpic |-> token, care |-> care,
                                                      now |-> now])]
    /\ UNCHANGED <<pc, site, base_cfg, proposed, debug_assertions, ctx, ledger, event, sent,
                   args, tree, tasks, token, backends>>

NextFpic == Veto \/ Status \/ CheckFpicAndCare

SpecFpic == InitFpic /\ [][NextFpic]_vars

\* now lies in [granted_at, granted_at + max_age].
InWindow(now) ==
    /\ token.lifetime.granted_at <= now
    /\ now <= token.lifetime.granted_at + token.lifetime.max_age

\* C25: after veto, status returns Revoked for every now and after any
\* further operations; status returns Granted only if the token was never
\* vetoed and now lies in [granted_at, granted_at + max_age]; it never
\* returns Denied.
C25_VetoIrreversibleConsentExpires ==
    (out.verdict = "None" /\ "op" \in DOMAIN out /\ out.op = "status")
        => /\ pc = "vetoed" => out.result = "Revoked"
           /\ out.result = "Granted" => (pc = "token" /\ InWindow(out.now))
           /\ out.result # "Denied"

C25_Witness ==
    /\ pc = "vetoed"
    /\ "op" \in DOMAIN out
    /\ out.op = "status"
    /\ InWindow(out.now)
    /\ out.result = "Revoked"

(***************************************************************************)
(* The policy-change guard.  A governance backend answers get_fpic_status  *)
(* for a community with "Granted", "Pending", "Withheld" or "Error"; a     *)
(* simulation backend answers evaluate_policy with an outcome or "Error".  *)
(* Every call to a backend is appended to backends.calls.                  *)
(***************************************************************************)

\* The risk above which a simulated policy is blocked (0.3).
MaxNeurorightsRisk == 300000000

\* The environmental justice score below which it is blocked (0.6).
MinJusticeScore == 600000000

\* The loop of validate_policy_change over the communities still to check:
\* the calls made and whether the loop returned an error.
RECURSIVE check_communities(_, _, _)
check_communities(governance, todo, calls) ==
    IF todo = <<>> THEN [err |-> "None", calls |-> calls]
    ELSE LET community == Head(todo)
             answer == governance[community]
             made == Append(calls, <<"get_fpic_status", community>>)
         IN  CASE answer = "Granted" -> check_communities(governance, Tail(todo), made)
               [] answer = "Pending" -> [err |-> "Err: FPIC still pending", calls |-> made]
               [] answer = "Withheld" -> [err |-> "Err: FPIC withheld", calls |-> made]
               [] OTHER -> [err |-> "Err: backend", calls |-> made]

\* validate_policy_change: the result and the calls made to the backends.
validate_policy_change(governance, simulator, affected_communities) ==
    LET fpic == check_communities(governance, affected_communities, <<>>)
        made == Append(fpic.calls, <<"evaluate_policy", 0>>)
    IN  IF fpic.err # "None" THEN [result |-> fpic.err, calls |-> fpic.calls]
        ELSE IF simulator.answer = "Error" THEN [result |-> "Err: backend", calls |-> made]
        ELSE IF FGt(simulator.expected_neurorights_risk, MaxNeurorightsRisk)
        THEN [result |-> "Err: neurorights risk too high", calls |-> made]
        ELSE IF FLt(simulator.environmental_justice_score, MinJusticeScore)
        THEN [result |-> "Err: environmental justice score too low", calls |-> made]
        ELSE [result |-> "Ok", calls |-> made]

\* The largest number of affected communities, and of community ids.
MaxCommunities == 2

\* The lists of affected communities.
CommunityLists == UNION {[1..n -> 1..MaxCommunities] : n \in 0..MaxCommunities}

\* The answers of a simulation backend: an error, or an outcome whose
\* indicators lie at and around the two thresholds or are NaN.
SimulatorCases ==
    {[answer |-> "Error", expected_neurorights_risk |-> 0, environmental_justice_score |-> 0]}
    \cup [answer : {"Outcome"},
          expected_neurorights_risk :
              {Frac(1, 10), NaN} \cup {MaxNeurorightsRisk + d : d \in EpsSteps},
          environmental_justice_score :
              {Frac(9, 10), NaN} \cup {MinJusticeScore - d : d \in EpsSteps}]

InitPolicy ==
    /\ pc = "proposal"
    /\ \E governance \in [1..MaxCommunities -> {"Granted", "Pending", "Withheld", "Error"}],
          simulator \in SimulatorCases :
          backends = [governance |-> governance, simulator |-> simulator, calls |-> <<>>]
    /\ args \in CommunityLists
    /\ tree = [traits |-> <<>>]
    /\ tasks = <<>>
    /\ token = [status |-> "None"]
    /\ site = MkSite(EnvBase, TerrBase, StressBase, RatioBase, IdBase)
    /\ base_cfg = NoCorridor
    /\ proposed = NoChange
    /\ debug_assertions = TRUE
    /\ ctx = NoCtx
    /\ ledger = NoLedger
    /\ event = NoEvent
    /\ sent = <<>>
    /\ out = NoResult

\* One call of validate_policy_change for the list of communities in args.
ValidatePolicyChange ==
    /\ pc = "proposal"
    /\ LET r == validate_policy_change(backends.governance, backends.simulator, args)
       IN  /\ out' = [verdict |-> "None", result |-> r.result]
           /\ backends' = [backends EXCEPT !.calls = r.calls]
    /\ pc' = "validated"
    /\ UNCHANGED <<site, base_cfg, proposed, debug_assertions, ctx, ledger, event, sent,
                   args, tree, tasks, token>>

NextPolicy == ValidatePolicyChange

SpecPolicy == InitPolicy /\ [][NextPolicy]_vars

\* The simulation outcome is acceptable: risk <= 0.3 and score >= 0.6.
OutcomeAcceptable(sim) ==
    /\ sim.answer = "Outcome"
    /\ FLe(sim.expected_neurorights_risk, MaxNeurorightsRisk)
    /\ FLe(MinJusticeScore, sim.environmental_justice_score)

\* The positions of the list whose community is not Granted.
NotGranted == {i \in DOMAIN args : backends.governance[args[i]] # "Granted"}

\* C26: the result is Ok only if every affected community is Granted and
\* the outcome has risk <= 0.3 and score >= 0.6; the communities are asked
\* in order and the first that is not Granted ends the call with Err before
\* the simulator is consulted; with no community the simulation decides.
C26_PolicyNeedsConsentAndSafeOutcome ==
    pc = "validated"
        => /\ out.result = "Ok" => (NotGranted = {} /\ OutcomeAcceptable(backends.simulator))
           /\ NotGranted # {}
                => LET first == CHOOSE i \in NotGranted : \A j \in NotGranted : i <= j
                   IN  /\ out.result # "Ok"
                       /\ backends.calls = [i \in 1..first |-> <<"get_fpic_status", args[i]>>]
           /\ args = <<>>
                => /\ backends.calls = <<<<"evaluate_policy", 0>>>>
                   /\ out.result = "Ok" <=> OutcomeAcceptable(backends.simulator)

(***************************************************************************)
(* Pairs of gate evaluations: a caller evaluates a change, then evaluates  *)
(* it again on a snapshot that differs from the first in one respect.      *)
(***************************************************************************)

\* Envelopes: those of WideEnvCases, lifeforce bands whose ceiling lies
\* below the floor, by far or by 2, 3, ... tolerance units, and a negative
\* risk-of-harm and decay.
TwinEnvCases ==
    WideEnvCases
    \cup {[EnvBase EXCEPT !.lifeforce_min = Frac(8, 10), !.lifeforce_max = Frac(2, 10),
                          !.lifeforce = lf] : lf \in {Frac(1, 2), NaN}}
    \cup {[EnvBase EXCEPT !.lifeforce_min = Frac(1, 2),
                          !.lifeforce_max = Frac(1, 2) - 2 * Eps - d,
                          !.lifeforce = Frac(1, 2) - Eps] : d \in EpsSteps}
    \cup {[EnvBase EXCEPT !.roh = -Frac(1, 10), !.decay = -Frac(2, 10)]}

\* Identities: those of WideIdCases, and fields outside [0, 1].
TwinIdCases ==
    WideIdCases
    \cup {[IdBase EXCEPT !.biostate_load = Frac(3, 2), !.sovereignty_trust = -Frac(1, 2)]}

\* Territorial loads: the base and no load at all.
TwinTerrCases == {TerrBase, [TerrBase EXCEPT !.body = 0, !.room = 0, !.grid = 0]}

\* Ratio pairs: within the ratio and beyond it.
TwinRatioCases == {RatioBase, [RatioBase EXCEPT !.power = Frac(1, 2), !.delta_power = Frac(1, 10)]}

InitTwin ==
    /\ pc = "call"
    /\ \E e \in TwinEnvCases, t \in TwinTerrCases, j \in TuningCases,
          r \in TwinRatioCases, i \in TwinIdCases :
          /\ site = MkSite(e, t, j, r, i)
          /\ proposed = MkChange(e, t, r, i)
    /\ base_cfg \in CorridorCases
    /\ debug_assertions = TRUE
    /\ ctx = NoCtx
    /\ ledger = NoLedger
    /\ event = NoEvent
    /\ sent = <<>>
    /\ Idle
    /\ out = NoResult

\* The second call of gate, on the snapshot s2 and the change p2; the result
\* of the first call is remembered as first.
GateTwin(twin, s2, p2) ==
    /\ pc = "returned"
    /\ out.verdict \in {"Allow", "Downscale", "Block", "ForceRepair"}
    /\ site' = s2
    /\ proposed' = p2
    /\ LET r == gate(s2, base_cfg, p2, debug_assertions)
       IN  out' = [verdict |-> r.verdict, locals |-> r.locals, twin |-> twin, first |-> out]
    /\ pc' = "returned_twin"
    /\ UNCHANGED <<base_cfg, debug_assertions, ctx, ledger, event, sent,
                   args, tree, tasks, token, backends>>

\* The stress of the snapshot is gone at the second call: its justice
\* metrics are back under their maxima.
RelieveStress ==
    /\ stressed(site)
    /\ GateTwin("relieved",
                [site EXCEPT !.justice_metrics = [hpcc |-> StressBase.hpcc,
                                                  erg |-> StressBase.erg,
                                                  tecr |-> StressBase.tecr]],
                proposed)

\* The lifeforce of the identity vector and its delta differ at the second
\* call.
ChangeIdentityLifeforce ==
    \E v \in {<<0, 0>>, <<NaN, 0>>, <<Frac(3, 2), -Frac(7, 10)>>} :
        GateTwin("identity_lifeforce",
                 [site EXCEPT !.identity_5d.lifeforce = v[1]],
                 [proposed EXCEPT !.delta_lifeforce = v[2]])

NextTwin == Gate \/ RelieveStress \/ ChangeIdentityLifeforce

SpecTwin == InitTwin /\ [][NextTwin]_vars

\* C27: with one change and one baseline corridor with corridor_min <=
\* corridor_max, and snapshots that differ only in being stressed or not,
\* an Allow of the stressed evaluation implies an Allow of the unstressed.
C27_StressOnlyStricter ==
    (/\ pc = "returned_twin"
     /\ out.twin = "relieved"
     /\ base_cfg.corridor_min <= base_cfg.corridor_max
     /\ out.first.verdict = "Allow")
        => out.verdict = "Allow"

\* C28: two evaluations that differ only in identity_5d.lifeforce and
\* delta_lifeforce return the same rails, current and predicted, and the
\* same verdict.
C28_IdentityLifeforceHasNoEffect ==
    (pc = "returned_twin" /\ out.twin = "identity_lifeforce")
        => /\ out.verdict = out.first.verdict
           /\ out.locals.current_b = out.first.locals.current_b
           /\ out.locals.pred_b = out.first.locals.pred_b

C28_Witness ==
    /\ pc = "returned_twin"
    /\ out.twin = "identity_lifeforce"
    /\ IsNaN(site.identity_5d.lifeforce)
    /\ out.first.verdict = "Downscale"
    /\ out.verdict = "Downscale"
    /\ out.locals.pred_b = out.first.locals.pred_b

\* A change that changes nothing: every delta is zero.
ZeroDeltas == \A f \in DOMAIN proposed : proposed[f] = 0

\* C29: for a change whose deltas are all zero, the predicted rail equals
\* the current rail; when the envelope and territorial checks pass, the
\* verdict is Allow, Downscale or Block, never ForceRepair, and with a rail
\* outside the tuned corridor and the ratio check passing it is Downscale.
C29_NoOpChangeNeverWorsens ==
    (Returned /\ ZeroDeltas) =>
        LET l == out.locals IN
        /\ PredictedB = l.current_b
        /\ (/\ check_envelopes(l.pred.env)
            /\ check_bioload(l.pred.bl))
               => /\ out.verdict \in {"Allow", "Downscale", "Block"}
                  /\ (/\ ~InCorridor(l.current_b, l.tuned_cfg)
                      /\ check_power_church(l.pred.pc))
                         => out.verdict = "Downscale"

\* The ceiling of the lifeforce band lies below its floor by more than
\* twice the tolerance.
InconsistentBand(env) == env.lifeforce_max < env.lifeforce_min - 2 * Eps

\* C30: with an inconsistent lifeforce band the gate returns ForceRepair,
\* whatever the change and the other fields.
C30_InconsistentBandForcesRepair ==
    (Returned /\ InconsistentBand(site.bio_env)) => out.verdict = "ForceRepair"
====
